---- MODULE Spec2Model ----
(***************************************************************************)
(* Settl polling worker: the EVM and Solana poll cycles, the chain         *)
(* cursors, the per-entity cursors, the alert ledger and the Telegram      *)
(* dispatch, as one state machine.  Every await of the worker on the       *)
(* database, an RPC node or Telegram is one step; two worker processes     *)
(* interleave at these steps.                                              *)
(*                                                                         *)
(* Units.  EVM transfer values are kept in gwei (10^9 wei): weiToEth       *)
(* rounds wei / 10^10 to an integer number of 10^-8 ETH, and that result   *)
(* depends only on floor(wei / 10^9).  Amounts and thresholds are integer  *)
(* multiples of 10^-8 native units.  Solana deltas are in lamports.        *)
(***************************************************************************)
EXTENDS Integers, Sequences, FiniteSets, TLC

VARIABLES
  family,        \* the chain family whose chains make progress in this run
  head,          \* chain -> block height the RPC node reports as latest
  solCount,      \* Solana address -> number of its signatures that exist so far
  chainCursor,   \* table chain_cursors: chain -> [present, lastBlockNumber]
  trackedAddress,\* table tracked_addresses: sequence of rows, id = position
  alertEvent,    \* table alert_events: key -> the rows stored under that key
  dispatched,    \* key -> number of sendMessage calls made for that alert
  delivered,     \* the keys for which a sendMessage call returned successfully
  req,           \* registration request -> its inputs and the position of its handler
  check,         \* the on-demand check that ran last: its activity list and analysis
  parseCall,     \* a Solana transaction handed to parseTransactionAmount, and the result
  w              \* worker -> the local variables and position of its cycle

vars == <<family, head, solCount, chainCursor, trackedAddress, alertEvent, dispatched, delivered,
          req, check, parseCall, w>>

-----------------------------------------------------------------------------
(* Bounds of the model *)

MaxHead == 3          \* heights the node reports are 0..MaxHead (one worker)
MaxHeadTwo == 2       \* the same with two workers
MaxHeadScan == 5      \* the same where addresses are registered and checked
MaxSigs == 3          \* signatures that appear per Solana address (one worker)
MaxSigsTwo == 1       \* the same with two workers
MaxLen == 3           \* records of the base of an activity list
MaxDelta == 12        \* balance deltas of a parsed transaction are -MaxDelta..MaxDelta
MaxRows == 4          \* rows of tracked_addresses, requests in progress included

(* Program constants (scaled so that the model reaches them) *)

maxBlocks == 2        \* blocks per scanNewBlocks call (50 in the source)
sigPageLimit == 2     \* signatures per getNewSignatures page (50 in the source)
maxTrackedPerUser == 2 \* config.limits.maxTrackedPerUser (20 in the source)
maxTrackedTotal == 3  \* config.limits.maxTrackedTotal (200 in the source)
SigBits == 4          \* significant bits of a number (53 in the source)
scanMaxBlocks == 2    \* maxBlocks of scanBlocksForAddress (100 in the source)
recentWindow == 4     \* blocks getRecentTransactions looks back (1000 in the source)

Workers == {"w1", "w2"}

evmChains == <<"eth", "base", "avax">>

EvmChainSet == {evmChains[i] : i \in 1..Len(evmChains)}

Min(a, b) == IF a <= b THEN a ELSE b

-----------------------------------------------------------------------------
(* EVM service *)

\* An address is its hex digits and whether they are written in lower case.
Addr(a, lower) == [hex |-> a, lower |-> lower]

normalizeAddress(address) == [address EXCEPT !.lower = TRUE]

\* Math.round(Number(wei) / 1e18 * 1e8) / 1e8, in units of 10^-8
weiToEth(gwei) == IF gwei = 0 THEN 0 ELSE (gwei + 5) \div 10

getNativeAsset(chain) ==
  CASE chain = "eth" -> "ETH"
    [] chain = "base" -> "ETH"
    [] chain = "avax" -> "AVAX"
    [] OTHER -> "NATIVE"

\* The transactions of the chains: eth_getBlockByNumber(chain, n).transactions
EvmTx(hash, from, to, value) ==
  [hash |-> hash, from |-> from, to |-> to, value |-> value, timestamp |-> 0]

\* block.timestamp of block n
BlockTimestamp(n) == 1000 + n

BlockTransactions(chain, n) ==
  IF chain = "eth" /\ n = 1
    THEN <<EvmTx("t1", Addr("a", FALSE), Addr("b", TRUE), 15)>>
  ELSE IF chain = "eth" /\ n = 3
    THEN <<EvmTx("t3", Addr("b", FALSE), Addr("a", FALSE), 30)>>
  ELSE <<>>

Stamp(txs, n) == [i \in 1..Len(txs) |-> [txs[i] EXCEPT !.timestamp = BlockTimestamp(n)]]

SelectTx(txs, addrs) ==
  SelectSeq(txs, LAMBDA tx : normalizeAddress(tx.from) \in addrs
                             \/ normalizeAddress(tx.to) \in addrs)

RECURSIVE ScanRange(_, _, _, _, _)
\* The loop of scanNewBlocks over blockNum = from..to; a block in failed throws
\* in getBlockByNumber, is logged and skipped.
ScanRange(chain, from, to, failed, addrs) ==
  IF from > to THEN <<>>
  ELSE (IF from \in failed THEN <<>> ELSE SelectTx(Stamp(BlockTransactions(chain, from), from), addrs))
       \o ScanRange(chain, from + 1, to, failed, addrs)

scanNewBlocksToHead(chain, lastCursor, addresses, latest, headOk, failed) ==
  LET fromBlock == lastCursor + 1
      actualToBlock == Min(latest, fromBlock + maxBlocks - 1)
      normalized == {normalizeAddress(addresses[i]) : i \in 1..Len(addresses)}
  IN  IF ~headOk
        THEN [transactions |-> <<>>, newCursor |-> lastCursor, skipped |-> {}]
      ELSE [transactions |-> ScanRange(chain, fromBlock, actualToBlock, failed, normalized),
            newCursor |-> latest,
            skipped |-> failed \cap (fromBlock..actualToBlock)]

\* scanNewBlocks(chain, lastCursor, trackedAddresses).  latest is the answer of
\* eth_blockNumber, headOk whether that call succeeded, failed the blocks of the
\* window whose fetch throws.
scanNewBlocks(chain, lastCursor, addresses, latest, headOk, failed) ==
  LET fromBlock == lastCursor + 1
      actualToBlock == Min(latest, fromBlock + maxBlocks - 1)
      normalized == {normalizeAddress(addresses[i]) : i \in 1..Len(addresses)}
  IN  IF ~headOk
        THEN [transactions |-> <<>>, newCursor |-> lastCursor, skipped |-> {}]
      ELSE IF fromBlock > latest
        THEN [transactions |-> <<>>, newCursor |-> latest, skipped |-> {}]
      ELSE [transactions |-> ScanRange(chain, fromBlock, actualToBlock, failed, normalized),
            newCursor |-> actualToBlock,
            skipped |-> failed \cap (fromBlock..actualToBlock)]

\* scanBlocksForAddress(chain, address, fromBlock, toBlock): the loop runs
\* over blockNum = fromBlock..actualToBlock, both ends included; fetched is
\* the heights getBlockByNumber is called with.
scanBlocksForAddress(chain, address, fromBlock, toBlock, failed) ==
  LET actualToBlock == Min(toBlock, fromBlock + scanMaxBlocks)
  IN  [transactions |-> ScanRange(chain, fromBlock, actualToBlock, failed,
                                  {normalizeAddress(address)}),
       fetched |-> fromBlock..actualToBlock]

\* evmService.getRecentTransactions(chain, address): the scan from
\* max(0, latest - 1000) to latest, the last 20 transactions parsed by
\* parseTransaction, the latest first; [] when eth_blockNumber fails.
evmGetRecentTransactions(chain, address, latest, ok, failed) ==
  LET fromBlock == IF latest - recentWindow > 0 THEN latest - recentWindow ELSE 0
      scan == scanBlocksForAddress(chain, address, fromBlock, latest, failed)
      n == Len(scan.transactions)
      last == SubSeq(scan.transactions, IF n > 20 THEN n - 19 ELSE 1, n)
      parseTransaction(tx) ==
        [timestamp |-> tx.timestamp, amount |-> weiToEth(tx.value),
         direction |-> IF normalizeAddress(tx.from) = normalizeAddress(address)
                         THEN "out" ELSE "in"]
  IN  IF ~ok THEN [activity |-> <<>>, fetched |-> {}]
      ELSE [activity |-> [i \in 1..Len(last) |-> parseTransaction(last[Len(last) + 1 - i])],
            fetched |-> scan.fetched]

-----------------------------------------------------------------------------
(* Solana service *)

SolSig(signature, err, accountKeys, preBalances, postBalances) ==
  [signature |-> signature, err |-> err, accountKeys |-> accountKeys,
   preBalances |-> preBalances, postBalances |-> postBalances]

\* Every signature an address will ever have, oldest first, with the
\* transaction getTransaction returns for it.
SolHistory(a) ==
  IF a = "S1"
    THEN << SolSig("s1", FALSE, <<"X", "S1">>, <<100, 50>>, <<80, 70>>),
            SolSig("s2", TRUE,  <<"X", "S1">>, <<100, 50>>, <<50, 100>>),
            SolSig("s3", FALSE, <<"S1", "X">>, <<70, 10>>, <<55, 25>>),
            SolSig("s4", FALSE, <<"X", "S1">>, <<90, 55>>, <<65, 80>>) >>
  ELSE IF a = "S2"
    THEN << SolSig("r1", FALSE, <<"X", "S2">>, <<40, 0>>, <<10, 30>>) >>
  ELSE <<>>

SolAddresses == {"S1", "S2"}

\* getSignaturesForAddress(address, limit): the newest first; [] when the RPC
\* call fails (the error is caught and logged there).
getSignaturesForAddress(address, limit, count, ok) ==
  IF ~ok THEN <<>>
  ELSE [i \in 1..Min(count, limit) |-> SolHistory(address)[count - i + 1]]

\* signatures.findIndex(sig => sig.signature === lastCursor), from 0; -1 if none
RECURSIVE FindIndexFrom(_, _, _)
FindIndexFrom(page, cursor, i) ==
  IF i > Len(page) THEN 0 - 1
  ELSE IF page[i].signature = cursor THEN i - 1
  ELSE FindIndexFrom(page, cursor, i + 1)

findIndexMissing(page, cursor) == 0 - 1

findIndex(page, cursor) == FindIndexFrom(page, cursor, 1)

getNewSignaturesOldest(page, lastCursor) ==
  IF Len(page) = 0
    THEN [signatures |-> <<>>, newCursor |-> lastCursor]
  ELSE [signatures |-> IF lastCursor = "" \/ findIndex(page, lastCursor) < 0 THEN page
                       ELSE SubSeq(page, 1, findIndex(page, lastCursor)),
        newCursor |-> page[Len(page)].signature]

\* getNewSignatures(address, lastCursor) given the fetched page; "" is no cursor
getNewSignatures(page, lastCursor) ==
  IF Len(page) = 0
    THEN [signatures |-> <<>>, newCursor |-> lastCursor]
  ELSE LET cursorIndex == IF lastCursor = "" THEN 0 - 1 ELSE findIndex(page, lastCursor)
           newSignatures == IF lastCursor = "" THEN page
                            ELSE IF cursorIndex > 0 THEN SubSeq(page, 1, cursorIndex)
                            ELSE IF cursorIndex = 0 THEN <<>>
                            ELSE page
       IN  [signatures |-> newSignatures, newCursor |-> page[1].signature]

\* Math.round(lamports / 1e9 * 1e8) / 1e8, in units of 10^-8 SOL; Math.round
\* rounds a half towards plus infinity
lamportsToSol(lamports) == (lamports + 5) \div 10

Abs(n) == IF n < 0 THEN 0 - n ELSE n

RECURSIVE TargetIndexFrom(_, _, _)
TargetIndexFrom(accountKeys, target, i) ==
  IF i > Len(accountKeys) THEN 0
  ELSE IF accountKeys[i] = target THEN i
  ELSE TargetIndexFrom(accountKeys, target, i + 1)

\* parseTransactionAmount(targetAddress, signature); ok is whether
\* getTransaction returned the transaction (it returns null on an RPC error)
parseTransactionAmount(target, sig, ok) ==
  LET targetIndex == TargetIndexFrom(sig.accountKeys, target, 1)
      balanceChange == sig.postBalances[targetIndex] - sig.preBalances[targetIndex]
  IN  IF ~ok \/ targetIndex = 0
        THEN [null |-> TRUE, amount |-> 0, direction |-> ""]
        ELSE [null |-> FALSE,
              amount |-> Abs(lamportsToSol(balanceChange)),
              direction |-> IF balanceChange >= 0 THEN "in" ELSE "out"]

\* No transaction has been handed to parseTransactionAmount.
NoParse == [tx |-> <<>>, result |-> <<>>]

-----------------------------------------------------------------------------
(* Tables *)

\* createdAt is the moment of the registration, kept as the number of
\* signatures of the address that were confirmed before it.
TrackedRow(id, userId, chain, address, minAmount, cursor) ==
  [id |-> id, userId |-> userId, chain |-> chain, address |-> address,
   minAmount |-> minAmount, isActive |-> TRUE, lastSeenCursor |-> cursor,
   createdAt |-> 0]

\* The registrations the worker starts with.
InitialTracked ==
  << TrackedRow(1, 1, "eth", Addr("a", TRUE), 2, "0"),
     TrackedRow(2, 2, "eth", Addr("b", TRUE), 3, "0"),
     TrackedRow(3, 1, "sol", Addr("S1", FALSE), 2, ""),
     TrackedRow(4, 2, "sol", Addr("S2", FALSE), 0, "") >>

EntityIds == 1..Len(InitialTracked)

TxIds(chain) ==
  IF chain = "eth" THEN {"t1", "t3"}
  ELSE IF chain = "sol" THEN {"s1", "s2", "s3", "s4", "r1"}
  ELSE {}

AlertKeys == UNION {{<<c, t, i>> : t \in TxIds(c), i \in EntityIds} : c \in EvmChainSet \cup {"sol"}}

Key(chain, tx, id) == <<chain, tx, id>>

findManyTrackedRemoved(rows, chain) ==
  SelectSeq(rows, LAMBDA t : t.chain = chain)

\* prisma.trackedAddress.findMany({ where: { chain, isActive: true } })
findManyTracked(rows, chain) ==
  SelectSeq(rows, LAMBDA t : t.chain = chain /\ t.isActive)

findUniqueNever(rows, key) == FALSE

\* prisma.alertEvent.findUnique on the compound key: whether a row is found
findUnique(rows, key) == rows[key] # <<>>

NoUniqueConstraint(rows, key) == FALSE

\* The UNIQUE(chain, tx_hash_or_sig, tracked_address_id) constraint: an insert
\* of a key that is already stored is rejected.
UniqueViolation(rows, key) == rows[key] # <<>>

AlertRowSent(timestamp, direction, amount, asset) ==
  [timestamp |-> timestamp, direction |-> direction, amount |-> amount,
   asset |-> asset, sentToTelegram |-> TRUE]

\* data of prisma.alertEvent.create: sentToTelegram: false
AlertRow(timestamp, direction, amount, asset) ==
  [timestamp |-> timestamp, direction |-> direction, amount |-> amount,
   asset |-> asset, sentToTelegram |-> FALSE]

\* prisma.alertEvent.create
createAlert(rows, key, row) == [rows EXCEPT ![key] = Append(@, row)]

\* prisma.alertEvent.updateMany({ where: key, data: { sentToTelegram: true } })
markSent(rows, key) ==
  [rows EXCEPT ![key] = [i \in 1..Len(@) |-> [@[i] EXCEPT !.sentToTelegram = TRUE]]]

\* prisma.trackedAddress.update({ where: { id }, data: { lastSeenCursor } })
writeLastSeen(rows, id, cursor) == [rows EXCEPT ![id].lastSeenCursor = cursor]

\* prisma.chainCursor.create / update
writeCursor(rows, chain, n) ==
  [rows EXCEPT ![chain] = [present |-> TRUE, lastBlockNumber |-> n]]

cursorAfterScanStored(rows, chain, n) == writeCursor(rows, chain, n)

\* scanNewBlocks only returns newCursor: pollEvmChain stores nothing between
\* the scan and the end of its loops.
cursorAfterScan(rows, chain, n) == rows

-----------------------------------------------------------------------------
(* The worker *)

IdleW ==
  [pc |-> "idle", ci |-> 0, lastBlockNumber |-> 0, latestBlock |-> 0,
   tracked |-> <<>>, transactions |-> <<>>, newCursor |-> 0, skipped |-> {},
   k |-> 0, existing |-> FALSE, error |-> "",
   found |-> FALSE, ei |-> 0, signatures |-> <<>>, solCursor |-> "", si |-> 0,
   unparsed |-> {}, thrown |-> {}]

Chain(x) == evmChains[x.ci]

\* The next iteration of the loop of pollEvmChains, or the end of the cycle.
NextChain(x) ==
  IF x.ci < Len(evmChains)
    THEN [IdleW EXCEPT !.pc = "evmRead", !.ci = x.ci + 1]
    ELSE IdleW

\* An exception leaves pollEvmChain and reaches the catch of pollEvmChains.
Throw(x, error) == [x EXCEPT !.pc = "evmCatch", !.error = error]

NPairs(x) == Len(x.transactions) * Len(x.tracked)

PairTx(x, k) == x.transactions[((k - 1) \div Len(x.tracked)) + 1]

PairTracked(x, k) == x.tracked[((k - 1) % Len(x.tracked)) + 1]

EvmMatches(tx, tracked) ==
  \/ normalizeAddress(tx.from) = normalizeAddress(tracked.address)
  \/ normalizeAddress(tx.to) = normalizeAddress(tracked.address)

EvmDirectionInverted(tx, tracked) ==
  IF normalizeAddress(tx.from) = normalizeAddress(tracked.address) THEN "in" ELSE "out"

\* const direction = fromAddr === normalizedTracked ? 'out' : 'in'
EvmDirection(tx, tracked) ==
  IF normalizeAddress(tx.from) = normalizeAddress(tracked.address) THEN "out" ELSE "in"

MeetsThresholdStrict(amount, minAmount) == amount > minAmount

\* if (amount < tracked.minAmount) continue;
MeetsThreshold(amount, minAmount) == ~(amount < minAmount)

EvmQualifies(tx, tracked) ==
  EvmMatches(tx, tracked) /\ MeetsThreshold(weiToEth(tx.value), tracked.minAmount)

\* The first pair at or after k that reaches the duplicate check; NPairs + 1
\* when the loops end first.
RECURSIVE NextPair(_, _)
NextPair(x, k) ==
  IF k > NPairs(x) THEN k
  ELSE IF EvmQualifies(PairTx(x, k), PairTracked(x, k)) THEN k
  ELSE NextPair(x, k + 1)

PairKeyOfTransaction(x, k) == Key(Chain(x), PairTx(x, k).hash, x.tracked[1].id)

PairKey(x, k) == Key(Chain(x), PairTx(x, k).hash, PairTracked(x, k).id)

Set(p, x) == w' = [w EXCEPT ![p] = x]

\* The outcomes of a call that can fail with a fault of this kind, given the
\* kinds of fault F the environment shows: TRUE is success.
Outcomes(F, kind) == IF kind \in F THEN BOOLEAN ELSE {TRUE}

AllFaults == {"storage", "rpc", "block", "telegram", "crash"}

EvmStartOverlapping(p, F) ==
  /\ w[p].pc \notin {"evmRead", "solTracked"}
  /\ Set(p, [IdleW EXCEPT !.pc = "evmRead", !.ci = 1])
  /\ UNCHANGED <<family, head, solCount, chainCursor, trackedAddress, alertEvent, dispatched,
                 delivered, req, check, parseCall>>

\* runWorker: the EVM interval has elapsed.  runWorker awaits pollEvmChains and
\* pollSolana in turn and is scheduled again by setTimeout only after both.
EvmStart(p, F) ==
  /\ w[p].pc = "idle"
  /\ Set(p, [IdleW EXCEPT !.pc = "evmRead", !.ci = 1])
  /\ UNCHANGED <<family, head, solCount, chainCursor, trackedAddress, alertEvent, dispatched,
                 delivered, req, check, parseCall>>

\* prisma.chainCursor.findUnique({ where: { chain } })
EvmReadCursor(p, F) ==
  /\ w[p].pc = "evmRead"
  /\ \E ok \in Outcomes(F, "storage") :
       Set(p, IF ~ok THEN Throw(w[p], "storage")
              ELSE IF chainCursor[Chain(w[p])].present
                THEN [w[p] EXCEPT !.pc = "evmTracked", !.found = TRUE,
                        !.lastBlockNumber = chainCursor[Chain(w[p])].lastBlockNumber]
              ELSE [w[p] EXCEPT !.pc = "evmInit"])
  /\ UNCHANGED <<family, head, solCount, chainCursor, trackedAddress, alertEvent, dispatched,
                 delivered, req, check, parseCall>>

\* no cursor row: evmService.getLatestBlockNumber(chain)
EvmInitHead(p, F) ==
  /\ w[p].pc = "evmInit"
  /\ \E ok \in Outcomes(F, "rpc") :
       Set(p, IF ~ok THEN Throw(w[p], "rpc")
              ELSE [w[p] EXCEPT !.pc = "evmInitCreate", !.latestBlock = head[Chain(w[p])]])
  /\ UNCHANGED <<family, head, solCount, chainCursor, trackedAddress, alertEvent, dispatched,
                 delivered, req, check, parseCall>>

EvmInitCreateZero(p, F) ==
  /\ w[p].pc = "evmInitCreate"
  /\ chainCursor' = writeCursor(chainCursor, Chain(w[p]), 0)
  /\ Set(p, NextChain(w[p]))
  /\ UNCHANGED <<family, head, solCount, trackedAddress, alertEvent, dispatched, delivered,
                 req, check, parseCall>>

\* prisma.chainCursor.create, then return; chain is the key of the table
EvmInitCreate(p, F) ==
  /\ w[p].pc = "evmInitCreate"
  /\ \E ok \in Outcomes(F, "storage") :
       IF ~ok
         THEN Set(p, Throw(w[p], "storage")) /\ UNCHANGED chainCursor
       ELSE IF chainCursor[Chain(w[p])].present
         THEN Set(p, Throw(w[p], "unique")) /\ UNCHANGED chainCursor
       ELSE /\ chainCursor' = writeCursor(chainCursor, Chain(w[p]), w[p].latestBlock)
            /\ Set(p, NextChain(w[p]))
  /\ UNCHANGED <<family, head, solCount, trackedAddress, alertEvent, dispatched, delivered,
                 req, check, parseCall>>

\* prisma.trackedAddress.findMany; return when there is none
EvmLoadTracked(p, F) ==
  /\ w[p].pc = "evmTracked"
  /\ \E ok \in Outcomes(F, "storage") :
       LET found == findManyTracked(trackedAddress, Chain(w[p]))
       IN  Set(p, IF ~ok THEN Throw(w[p], "storage")
                  ELSE IF Len(found) = 0 THEN NextChain(w[p])
                  ELSE [w[p] EXCEPT !.pc = "evmScan", !.tracked = found])
  /\ UNCHANGED <<family, head, solCount, chainCursor, trackedAddress, alertEvent, dispatched,
                 delivered, req, check, parseCall>>

\* evmService.scanNewBlocks(chain, chainCursor.lastBlockNumber, addresses)
EvmScan(p, F) ==
  /\ w[p].pc = "evmScan"
  /\ \E headOk \in Outcomes(F, "rpc"), failed \in SUBSET (1..MaxHead) :
       LET x == w[p]
           r == scanNewBlocks(Chain(x), x.lastBlockNumber,
                              [i \in 1..Len(x.tracked) |-> x.tracked[i].address],
                              head[Chain(x)], headOk, failed)
       IN  /\ failed \subseteq (x.lastBlockNumber + 1)..head[Chain(x)]
           /\ headOk \/ failed = {}
           /\ "block" \in F \/ failed = {}
           /\ Set(p, [x EXCEPT !.pc = "evmLoop", !.transactions = r.transactions,
                        !.newCursor = r.newCursor, !.skipped = r.skipped, !.k = 1])
           /\ chainCursor' = cursorAfterScan(chainCursor, Chain(x), r.newCursor)
  /\ UNCHANGED <<family, head, solCount, trackedAddress, alertEvent, dispatched, delivered,
                 req, check, parseCall>>

\* The two loops up to the next prisma.alertEvent.findUnique; an existing row
\* is skipped; after the loops the cursor update is next.
EvmLoop(p, F) ==
  /\ w[p].pc = "evmLoop"
  /\ LET x == w[p]
         k == NextPair(x, x.k)
     IN  IF k > NPairs(x)
           THEN Set(p, [x EXCEPT !.pc = "evmUpdate", !.k = k])
           ELSE \E ok \in Outcomes(F, "storage") :
                  Set(p, IF ~ok THEN Throw(x, "storage")
                         ELSE IF findUnique(alertEvent, PairKey(x, k))
                           THEN [x EXCEPT !.k = k + 1, !.existing = TRUE]
                         ELSE [x EXCEPT !.pc = "evmCreate", !.k = k, !.existing = FALSE])
  /\ UNCHANGED <<family, head, solCount, chainCursor, trackedAddress, alertEvent, dispatched,
                 delivered, req, check, parseCall>>

\* prisma.alertEvent.create({ data: { ..., sentToTelegram: false } })
EvmCreate(p, F) ==
  /\ w[p].pc = "evmCreate"
  /\ LET x == w[p]
         tx == PairTx(x, x.k)
         tracked == PairTracked(x, x.k)
         key == PairKey(x, x.k)
     IN  \E ok \in Outcomes(F, "storage") :
           IF ~ok
             THEN Set(p, Throw(x, "storage")) /\ UNCHANGED alertEvent
           ELSE IF UniqueViolation(alertEvent, key)
             THEN Set(p, Throw(x, "unique")) /\ UNCHANGED alertEvent
           ELSE /\ alertEvent' = createAlert(alertEvent, key,
                     AlertRow(tx.timestamp, EvmDirection(tx, tracked),
                              weiToEth(tx.value), getNativeAsset(Chain(x))))
                /\ Set(p, [x EXCEPT !.pc = "evmSend"])
  /\ UNCHANGED <<family, head, solCount, chainCursor, trackedAddress, dispatched, delivered,
                 req, check, parseCall>>

AfterSendFailureRetry(x) == x

\* Where the loop goes when telegramService.sendMessage throws: the inner catch
\* logs and the loop continues with the next pair.
AfterSendFailure(x) == [x EXCEPT !.pc = "evmLoop", !.k = x.k + 1]

\* telegramService.sendMessage inside the inner try
EvmSend(p, F) ==
  /\ w[p].pc = "evmSend"
  /\ dispatched' = [dispatched EXCEPT ![PairKey(w[p], w[p].k)] = Min(@ + 1, 2)]
  /\ \E ok \in Outcomes(F, "telegram") :
       /\ Set(p, IF ok THEN [w[p] EXCEPT !.pc = "evmMark"] ELSE AfterSendFailure(w[p]))
       /\ delivered' = IF ok THEN delivered \cup {PairKey(w[p], w[p].k)} ELSE delivered
  /\ UNCHANGED <<family, head, solCount, chainCursor, trackedAddress, alertEvent, req, check,
                 parseCall>>

\* prisma.alertEvent.updateMany, still inside the inner try
EvmMark(p, F) ==
  /\ w[p].pc = "evmMark"
  /\ \E ok \in Outcomes(F, "storage") :
       alertEvent' = IF ok THEN markSent(alertEvent, PairKey(w[p], w[p].k)) ELSE alertEvent
  /\ Set(p, [w[p] EXCEPT !.pc = "evmLoop", !.k = w[p].k + 1])
  /\ UNCHANGED <<family, head, solCount, chainCursor, trackedAddress, dispatched, delivered,
                 req, check, parseCall>>

\* if (newCursor !== chainCursor.lastBlockNumber) prisma.chainCursor.update
EvmUpdate(p, F) ==
  /\ w[p].pc = "evmUpdate"
  /\ LET x == w[p]
     IN  IF x.newCursor # x.lastBlockNumber
           THEN \E ok \in Outcomes(F, "storage") :
                  IF ok
                    THEN /\ chainCursor' = writeCursor(chainCursor, Chain(x), x.newCursor)
                         /\ Set(p, NextChain(x))
                    ELSE Set(p, Throw(x, "storage")) /\ UNCHANGED chainCursor
           ELSE Set(p, NextChain(x)) /\ UNCHANGED chainCursor
  /\ UNCHANGED <<family, head, solCount, trackedAddress, alertEvent, dispatched, delivered,
                 req, check, parseCall>>

EvmCatchAbort(p, F) ==
  /\ w[p].pc = "evmCatch"
  /\ Set(p, IdleW)
  /\ UNCHANGED <<family, head, solCount, chainCursor, trackedAddress, alertEvent, dispatched,
                 delivered, req, check, parseCall>>

\* catch (error) { console.error(...) } of pollEvmChains
EvmCatch(p, F) ==
  /\ w[p].pc = "evmCatch"
  /\ Set(p, NextChain(w[p]))
  /\ UNCHANGED <<family, head, solCount, chainCursor, trackedAddress, alertEvent, dispatched,
                 delivered, req, check, parseCall>>

-----------------------------------------------------------------------------
(* The worker: pollSolana *)

Tracked(x) == x.tracked[x.ei]

\* The next iteration of the loop over the tracked addresses, or the end.
NextEntity(x) ==
  IF x.ei < Len(x.tracked)
    THEN [IdleW EXCEPT !.pc = "solScan", !.tracked = x.tracked, !.ei = x.ei + 1,
                       !.thrown = x.thrown]
    ELSE IdleW

\* An exception inside the loop body reaches the catch of that iteration;
\* thrown keeps the addresses of this cycle whose iteration ended that way.
SolThrow(x, error) ==
  [x EXCEPT !.pc = "solCatch", !.error = error, !.thrown = @ \cup {Tracked(x).id}]

NextSigAny(signatures, i) == i

\* if (sig.err) continue: the first signature at or after i without an error
RECURSIVE NextSig(_, _)
NextSig(signatures, i) ==
  IF i > Len(signatures) THEN i
  ELSE IF ~signatures[i].err THEN i
  ELSE NextSig(signatures, i + 1)

SigKey(x, i) == Key("sol", x.signatures[i].signature, Tracked(x).id)

\* runWorker: the Solana interval has elapsed
SolStart(p, F) ==
  /\ w[p].pc = "idle"
  /\ Set(p, [IdleW EXCEPT !.pc = "solTracked"])
  /\ UNCHANGED <<family, head, solCount, chainCursor, trackedAddress, alertEvent, dispatched,
                 delivered, req, check, parseCall>>

\* prisma.trackedAddress.findMany for chain sol; an error reaches the outer catch
SolLoadTracked(p, F) ==
  /\ w[p].pc = "solTracked"
  /\ \E ok \in Outcomes(F, "storage") :
       LET found == findManyTracked(trackedAddress, "sol")
       IN  Set(p, IF ~ok THEN [w[p] EXCEPT !.pc = "solCatchOuter", !.error = "storage"]
                  ELSE IF Len(found) = 0 THEN IdleW
                  ELSE [w[p] EXCEPT !.pc = "solScan", !.tracked = found, !.ei = 1])
  /\ UNCHANGED <<family, head, solCount, chainCursor, trackedAddress, alertEvent, dispatched,
                 delivered, req, check, parseCall>>

\* solanaService.getNewSignatures(tracked.address, lastCursor); continue when
\* it returns no signature
SolScan(p, F) ==
  /\ w[p].pc = "solScan"
  /\ \E ok \in Outcomes(F, "rpc") :
       LET x == w[p]
           a == Tracked(x).address.hex
           page == getSignaturesForAddress(a, sigPageLimit, solCount[a], ok)
           r == getNewSignatures(page, Tracked(x).lastSeenCursor)
       IN  Set(p, IF Len(r.signatures) = 0 THEN NextEntity(x)
                  ELSE [x EXCEPT !.pc = "solLoop", !.signatures = r.signatures,
                          !.solCursor = r.newCursor, !.si = 1])
  /\ UNCHANGED <<family, head, solCount, chainCursor, trackedAddress, alertEvent, dispatched,
                 delivered, req, check, parseCall>>

\* The loop over the signatures up to the next prisma.alertEvent.findUnique:
\* parseTransactionAmount, the threshold, the duplicate check.
SolLoop(p, F) ==
  /\ w[p].pc = "solLoop"
  /\ LET x == w[p]
         i == NextSig(x.signatures, x.si)
     IN  IF i > Len(x.signatures)
           THEN Set(p, [x EXCEPT !.pc = "solUpdate", !.si = i])
           ELSE \E got \in Outcomes(F, "rpc"), ok \in Outcomes(F, "storage") :
                  LET parsed == parseTransactionAmount(Tracked(x).address.hex, x.signatures[i], got)
                  IN  Set(p, IF parsed.null
                               THEN [x EXCEPT !.si = i + 1,
                                       !.unparsed = IF got THEN @ ELSE @ \cup {x.signatures[i].signature}]
                             ELSE IF ~MeetsThreshold(parsed.amount, Tracked(x).minAmount)
                               THEN [x EXCEPT !.si = i + 1]
                             ELSE IF ~ok THEN SolThrow(x, "storage")
                             ELSE IF findUnique(alertEvent, SigKey(x, i))
                               THEN [x EXCEPT !.si = i + 1, !.existing = TRUE]
                             ELSE [x EXCEPT !.pc = "solCreate", !.si = i, !.existing = FALSE])
  /\ UNCHANGED <<family, head, solCount, chainCursor, trackedAddress, alertEvent, dispatched,
                 delivered, req, check, parseCall>>

\* prisma.alertEvent.create({ data: { chain: 'sol', ..., sentToTelegram: false } })
SolCreate(p, F) ==
  /\ w[p].pc = "solCreate"
  /\ LET x == w[p]
         sig == x.signatures[x.si]
         parsed == parseTransactionAmount(Tracked(x).address.hex, sig, TRUE)
         key == SigKey(x, x.si)
     IN  \E ok \in Outcomes(F, "storage") :
           IF ~ok
             THEN Set(p, SolThrow(x, "storage")) /\ UNCHANGED alertEvent
           ELSE IF UniqueViolation(alertEvent, key)
             THEN Set(p, SolThrow(x, "unique")) /\ UNCHANGED alertEvent
           ELSE /\ alertEvent' = createAlert(alertEvent, key,
                     AlertRow(0, parsed.direction, parsed.amount, "SOL"))
                /\ Set(p, [x EXCEPT !.pc = "solSend"])
  /\ UNCHANGED <<family, head, solCount, chainCursor, trackedAddress, dispatched, delivered,
                 req, check, parseCall>>

\* telegramService.sendMessage inside the inner try
SolSend(p, F) ==
  /\ w[p].pc = "solSend"
  /\ dispatched' = [dispatched EXCEPT ![SigKey(w[p], w[p].si)] = Min(@ + 1, 2)]
  /\ \E ok \in Outcomes(F, "telegram") :
       /\ Set(p, IF ok THEN [w[p] EXCEPT !.pc = "solMark"]
                 ELSE [w[p] EXCEPT !.pc = "solLoop", !.si = w[p].si + 1])
       /\ delivered' = IF ok THEN delivered \cup {SigKey(w[p], w[p].si)} ELSE delivered
  /\ UNCHANGED <<family, head, solCount, chainCursor, trackedAddress, alertEvent, req, check,
                 parseCall>>

\* prisma.alertEvent.updateMany, still inside the inner try
SolMark(p, F) ==
  /\ w[p].pc = "solMark"
  /\ \E ok \in Outcomes(F, "storage") :
       alertEvent' = IF ok THEN markSent(alertEvent, SigKey(w[p], w[p].si)) ELSE alertEvent
  /\ Set(p, [w[p] EXCEPT !.pc = "solLoop", !.si = w[p].si + 1])
  /\ UNCHANGED <<family, head, solCount, chainCursor, trackedAddress, dispatched, delivered,
                 req, check, parseCall>>

\* if (newCursor && newCursor !== tracked.lastSeenCursor) prisma.trackedAddress.update
SolUpdate(p, F) ==
  /\ w[p].pc = "solUpdate"
  /\ LET x == w[p]
     IN  IF x.solCursor # "" /\ x.solCursor # Tracked(x).lastSeenCursor
           THEN \E ok \in Outcomes(F, "storage") :
                  IF ok
                    THEN /\ trackedAddress' = writeLastSeen(trackedAddress, Tracked(x).id, x.solCursor)
                         /\ Set(p, NextEntity(x))
                    ELSE Set(p, SolThrow(x, "storage")) /\ UNCHANGED trackedAddress
           ELSE Set(p, NextEntity(x)) /\ UNCHANGED trackedAddress
  /\ UNCHANGED <<family, head, solCount, chainCursor, alertEvent, dispatched, delivered, req,
                 check, parseCall>>

SolCatchAbort(p, F) ==
  /\ w[p].pc = "solCatch"
  /\ Set(p, IdleW)
  /\ UNCHANGED <<family, head, solCount, chainCursor, trackedAddress, alertEvent, dispatched,
                 delivered, req, check, parseCall>>

\* catch (error) of one iteration: log, go on with the next tracked address
SolCatch(p, F) ==
  /\ w[p].pc = "solCatch"
  /\ Set(p, NextEntity(w[p]))
  /\ UNCHANGED <<family, head, solCount, chainCursor, trackedAddress, alertEvent, dispatched,
                 delivered, req, check, parseCall>>

\* the outer catch (error) of pollSolana
SolCatchOuter(p, F) ==
  /\ w[p].pc = "solCatchOuter"
  /\ Set(p, IdleW)
  /\ UNCHANGED <<family, head, solCount, chainCursor, trackedAddress, alertEvent, dispatched,
                 delivered, req, check, parseCall>>

\* SIGTERM / SIGINT: process.exit(0), and the process is started again
Crash(p, F) ==
  /\ "crash" \in F
  /\ w[p].pc # "idle"
  /\ Set(p, IdleW)
  /\ UNCHANGED <<family, head, solCount, chainCursor, trackedAddress, alertEvent, dispatched,
                 delivered, req, check, parseCall>>

-----------------------------------------------------------------------------
(* Risk service.  An amount is a number of type number, a binary floating
   point value; the model keeps amounts as integer multiples of a unit and
   rounds every sum to SigBits significant bits, to the nearest, ties to the
   even significand.  `one' is the amount 1.0 in units.  Timestamps are whole
   seconds, whose sums and means are exact. *)

RECURSIVE Pow2(_)
Pow2(k) == IF k = 0 THEN 1 ELSE 2 * Pow2(k - 1)

\* The unit in the last place of x: the least power of two u >= from with
\* x < 2^SigBits * u
RECURSIVE Ulp(_, _)
Ulp(x, from) == IF x < Pow2(SigBits) * from THEN from ELSE Ulp(x, 2 * from)

\* x rounded to a value of the floating point type
Fl(x) ==
  LET u == Ulp(x, 1)
      q == x \div u
      r == x % u
  IN  IF 2 * r < u THEN q * u
      ELSE IF 2 * r > u THEN (q + 1) * u
      ELSE IF q % 2 = 0 THEN q * u
      ELSE (q + 1) * u

\* sum + amt
FAdd(x, y) == Fl(x + y)

Activity(timestamp, amount, direction) ==
  [timestamp |-> timestamp, amount |-> amount, direction |-> direction]

\* amounts.reduce((sum, amt) => sum + amt, 0), and the same loop over the
\* records of one direction in analyzeFlows
RECURSIVE SumFrom(_, _, _, _)
SumFrom(activity, directions, i, sum) ==
  IF i > Len(activity) THEN sum
  ELSE SumFrom(activity, directions, i + 1,
               IF activity[i].direction \in directions
                 THEN FAdd(sum, activity[i].amount) ELSE sum)

RECURSIVE Insert(_, _)
Insert(sorted, t) ==
  IF Len(sorted) = 0 THEN <<t>>
  ELSE IF t < sorted[1] THEN <<t>> \o sorted
  ELSE <<sorted[1]>> \o Insert(Tail(sorted), t)

\* activity.map(a => a.timestamp).sort((a, b) => a - b)
RECURSIVE SortedTimestamps(_)
SortedTimestamps(activity) ==
  IF Len(activity) = 0 THEN <<>>
  ELSE Insert(SortedTimestamps(Tail(activity)), activity[1].timestamp)

RECURSIVE TotalGap(_, _)
TotalGap(timestamps, i) ==
  IF i > Len(timestamps) THEN 0
  ELSE (timestamps[i] - timestamps[i - 1]) + TotalGap(timestamps, i + 1)

RECURSIVE MaxAmount(_)
MaxAmount(activity) ==
  IF Len(activity) = 1 THEN activity[1].amount
  ELSE LET m == MaxAmount(Tail(activity))
       IN  IF activity[1].amount > m THEN activity[1].amount ELSE m

SubScore(score, reason) == [score |-> score, reason |-> reason]

\* avgGapMinutes < m, with avgGapMinutes = totalGap / (length - 1) / 60
analyzeVelocity(activity) ==
  LET n == Len(activity)
      totalGap == TotalGap(SortedTimestamps(activity), 2)
  IN  IF n < 2 THEN SubScore(0, "")
      ELSE IF totalGap < 5 * 60 * (n - 1) /\ n >= 10
        THEN SubScore(25, "Very high transaction velocity (potential bot activity)")
      ELSE IF totalGap < 30 * 60 * (n - 1) /\ n >= 5
        THEN SubScore(15, "High transaction frequency detected")
      ELSE SubScore(0, "")

\* maxAmount > avgAmount * k, with avgAmount the sum of the amounts in the
\* order of the list over their number
analyzeSpikes(activity, one) ==
  LET n == Len(activity)
      sum == SumFrom(activity, {"in", "out"}, 1, 0)
      maxAmount == MaxAmount(activity)
  IN  IF n < 3 THEN SubScore(0, "")
      ELSE IF maxAmount * n > sum * 10 /\ maxAmount > one
        THEN SubScore(20, "Large transaction spike detected (" \o ToString(maxAmount)
                            \o " vs avg " \o ToString(sum) \o "/" \o ToString(n) \o ")")
      ELSE IF maxAmount * n > sum * 5 /\ 2 * maxAmount > one
        THEN SubScore(10, "Unusual transaction size variation")
      ELSE SubScore(0, "")

\* ageDays < d, with ageDays = (now - firstTx) / 86400
analyzeWalletAge(activity, now) ==
  LET n == Len(activity)
      ageSeconds == now - SortedTimestamps(activity)[1]
  IN  IF n = 0 THEN SubScore(0, "")
      ELSE IF ageSeconds < 7 * 86400 /\ n >= 10
        THEN SubScore(20, "New wallet with high activity (potential throwaway)")
      ELSE IF ageSeconds < 30 * 86400 /\ n >= 15
        THEN SubScore(10, "Recently created wallet with significant activity")
      ELSE SubScore(0, "")

\* amt === Math.floor(amt) || amt === parseFloat(amt.toFixed(2)): a whole
\* number of hundredths
IsRound(amount, one) == (amount * 100) % one = 0

\* roundCount / activity.length > 0.7
analyzePatterns(activity, one) ==
  LET n == Len(activity)
      roundCount == Cardinality({i \in 1..n : IsRound(activity[i].amount, one)})
  IN  IF n < 5 THEN SubScore(0, "")
      ELSE IF 10 * roundCount > 7 * n
        THEN SubScore(15, "Many round-number transactions (possible automation)")
      ELSE SubScore(0, "")

\* totalOut > totalIn * 0.8, the two totals summed in the order of the list
analyzeFlows(activity) ==
  LET n == Len(activity)
      totalIn == SumFrom(activity, {"in"}, 1, 0)
      totalOut == SumFrom(activity, {"out"}, 1, 0)
      inCount == Cardinality({i \in 1..n : activity[i].direction = "in"})
      outCount == n - inCount
  IN  IF n < 3 THEN SubScore(0, "")
      ELSE IF totalIn > 0 /\ 5 * totalOut > 4 * totalIn /\ outCount >= 3
        THEN SubScore(20, "Rapid outflow pattern detected (possible layering)")
      ELSE IF outCount > 5 /\ inCount = 0
        THEN SubScore(15, "Only outflows detected (possible funds distribution)")
      ELSE SubScore(0, "")

getRiskLevelAbove(score) ==
  IF score > 70 THEN "critical"
  ELSE IF score > 50 THEN "high"
  ELSE IF score > 25 THEN "medium"
  ELSE "low"

getRiskLevel(score) ==
  IF score >= 70 THEN "critical"
  ELSE IF score >= 50 THEN "high"
  ELSE IF score >= 25 THEN "medium"
  ELSE "low"

\* if (x.reason) reasons.push(x.reason)
Push(reasons, sub) == IF sub.reason # "" THEN Append(reasons, sub.reason) ELSE reasons

\* The five sub-scores, in the order in which they are evaluated
SubScores(activity, now, one) ==
  << analyzeVelocity(activity), analyzeSpikes(activity, one), analyzeWalletAge(activity, now),
     analyzePatterns(activity, one), analyzeFlows(activity) >>

RiskAnalysis(riskScore, riskLevel, reasons) ==
  [riskScore |-> riskScore, riskLevel |-> riskLevel, reasons |-> reasons]

\* calculateRiskScore from the sub-scores on
Scored(activity, subs) ==
  LET sum == subs[1].score + subs[2].score + subs[3].score + subs[4].score + subs[5].score
      score == Min(100, IF sum < 0 THEN 0 ELSE sum)
      reasons == Push(Push(Push(Push(Push(<<>>, subs[1]), subs[2]), subs[3]), subs[4]), subs[5])
  IN  RiskAnalysis(score, getRiskLevel(score),
                   <<ToString(Len(activity)) \o " transactions analyzed">> \o reasons)

calculateRiskScoreAlways(recentActivity, now, one) ==
  Scored(recentActivity,
         IF Len(recentActivity) = 0
           THEN <<SubScore(0, ""), SubScore(0, ""), SubScore(0, ""), SubScore(0, ""),
                  SubScore(0, "")>>
           ELSE SubScores(recentActivity, now, one))

\* calculateRiskScore(recentActivity); now is Date.now() / 1000
calculateRiskScore(recentActivity, now, one) ==
  IF Len(recentActivity) = 0
    THEN RiskAnalysis(0, "low", <<"No recent activity detected">>)
  ELSE Scored(recentActivity, SubScores(recentActivity, now, one))

\* The analyzers a call of calculateRiskScore runs
Evaluated(recentActivity) ==
  IF Len(recentActivity) = 0 THEN {}
  ELSE {"analyzeVelocity", "analyzeSpikes", "analyzeWalletAge", "analyzePatterns",
        "analyzeFlows"}

-----------------------------------------------------------------------------
(* The chains *)

\* The node answers eth_blockNumber with another height: the chain grows, or a
\* node that lags or has reorganised answers with a lower one.
HeadChange(c, max) ==
  /\ family = "evm"
  /\ \E h \in 0..max : h # head[c] /\ head' = [head EXCEPT ![c] = h]
  /\ UNCHANGED <<family, solCount, chainCursor, trackedAddress, alertEvent, dispatched,
                 delivered, w, req, check, parseCall>>

\* A transaction that involves the address is confirmed: its next signature
\* appears in getSignaturesForAddress.
NewSignature(a, max) ==
  /\ family = "sol"
  /\ solCount[a] < Min(max, Len(SolHistory(a)))
  /\ solCount' = [solCount EXCEPT ![a] = @ + 1]
  /\ UNCHANGED <<family, head, chainCursor, trackedAddress, alertEvent, dispatched, delivered,
                 w, req, check, parseCall>>

\* An RPC node accepts the request and never answers: fetch has no timeout,
\* the await of the worker does not return.
RpcHang(p) ==
  /\ w[p].pc \in {"evmInit", "evmScan", "solScan"}
  /\ Set(p, [w[p] EXCEPT !.pc = "hung"])
  /\ UNCHANGED <<family, head, solCount, chainCursor, trackedAddress, alertEvent, dispatched,
                 delivered, req, check, parseCall>>

-----------------------------------------------------------------------------
(* Registration: POST /tracking/add-new and the add-new flow of the bot *)

\* The registration an address is made with: the user and the threshold
Template(a) ==
  CHOOSE t \in {InitialTracked[i] : i \in 1..Len(InitialTracked)} : t.address.hex = a

\* const signatures = await getSignaturesForAddress(address, 1);
\* initialCursor = signatures[0]?.signature || ''
initialCursor(page) == IF Len(page) > 0 THEN page[1].signature ELSE ""

\* A Solana address that is not tracked yet is registered: the duplicate
\* check, the initial cursor, prisma.trackedAddress.create.
Register(a, F) ==
  /\ family = "sol"
  /\ Len(trackedAddress) < Len(InitialTracked)
  /\ \A i \in 1..Len(trackedAddress) :
       ~(trackedAddress[i].chain = "sol" /\ trackedAddress[i].address.hex = a
         /\ trackedAddress[i].isActive)
  /\ \E ok \in Outcomes(F, "rpc") :
       LET page == getSignaturesForAddress(a, 1, solCount[a], ok)
           row == TrackedRow(Len(trackedAddress) + 1, Template(a).userId, "sol",
                             Template(a).address, Template(a).minAmount,
                             initialCursor(page))
       IN  trackedAddress' = Append(trackedAddress, [row EXCEPT !.createdAt = solCount[a]])
  /\ UNCHANGED <<family, head, solCount, chainCursor, alertEvent, dispatched, delivered, w,
                 req, check, parseCall>>

-----------------------------------------------------------------------------
(* Registration requests: POST /tracking/add-new, the add-new flow of the bot,
   POST /tracking/remove.  Every await of a handler is one step, and the
   handlers of two requests interleave at these steps. *)

Requests == {"r1", "r2"}

Users == {1, 2}

validChains == {"eth", "base", "avax", "sol"}

EvmHex == {"a", "b"}

evmIsValidAddressAny(address) == TRUE

\* /^0x[a-fA-F0-9]{40}$/
evmIsValidAddress(address) == address.hex \in EvmHex

\* /^[1-9A-HJ-NP-Za-km-z]{32,44}$/: no 0, so no EVM address matches
solIsValidAddress(address) == address.hex \in SolAddresses /\ ~address.lower

isValidAddress(chain, address) ==
  IF chain = "sol" THEN solIsValidAddress(address) ELSE evmIsValidAddress(address)

\* chain === 'sol' ? address : evmService.normalizeAddress(address)
storedAddress(chain, address) ==
  IF chain = "sol" THEN address ELSE normalizeAddress(address)

IdleReq ==
  [pc |-> "idle", path |-> "", userId |-> 0, chain |-> "", address |-> Addr("", FALSE),
   minAmount |-> 0, cursor |-> "", error |-> ""]

\* No check has run.  permuted is the same records in another order,
\* riskAnalysisPermuted their analysis at the same time, and fetched the block
\* heights the check of an EVM address asked the node for.
NoCheck ==
  [recentActivity |-> <<>>, permuted |-> <<>>, now |-> 0, one |-> 1, evaluated |-> {},
   riskAnalysis |-> <<>>, riskAnalysisPermuted |-> <<>>, fetched |-> {}]

SetReq(r, x) == req' = [req EXCEPT ![r] = x]

\* The handler answers with the error; of its inputs only the path and the
\* chain are kept to tell where the request was refused.
Reject(x, error) ==
  [IdleReq EXCEPT !.pc = "rejected", !.path = x.path, !.chain = x.chain, !.error = error]

\* The active rows of the table, as the set of their ids
ActiveIds(rows) == {i \in 1..Len(rows) : rows[i].isActive}

\* user.trackedAddresses (where isActive) of prisma.user.findUnique
UserActiveIds(rows, userId) == {i \in ActiveIds(rows) : rows[i].userId = userId}

\* prisma.trackedAddress.findFirst({ where: { userId, chain, address, isActive: true } })
findFirstTracked(rows, userId, chain, address) ==
  \E i \in ActiveIds(rows) :
    rows[i].userId = userId /\ rows[i].chain = chain /\ rows[i].address = address

\* The validation of the tracking API: the chain, the address format, the
\* threshold.  The flow of the bot takes the chain from the callback data as it
\* is and validates the address and the threshold.
Validation(path, chain, address, minAmount) ==
  IF path = "api" /\ chain \notin validChains THEN "chain"
  ELSE IF ~isValidAddress(chain, address) THEN "address"
  ELSE IF minAmount < 0 THEN "minAmount"
  ELSE ""

\* A registration request arrives: validation, then the user with the active
\* tracked addresses is read and the limit per user is tested.
AddNewStart(r, path, userId, chain, address, minAmount) ==
  /\ req[r].pc = "idle"
  /\ Len(trackedAddress) + Cardinality({q \in Requests : req[q].pc # "idle"}) < MaxRows
  /\ LET x == [IdleReq EXCEPT !.path = path, !.userId = userId, !.chain = chain,
                               !.address = address, !.minAmount = minAmount]
         invalid == Validation(path, chain, address, minAmount)
     IN  SetReq(r, IF invalid # "" THEN Reject(x, invalid)
                   ELSE IF Cardinality(UserActiveIds(trackedAddress, userId)) >= maxTrackedPerUser
                     THEN Reject(x, "limit")
                   ELSE [x EXCEPT !.pc = IF path = "api" THEN "countTotal" ELSE "initCursor"])
  /\ UNCHANGED <<family, head, solCount, chainCursor, trackedAddress, alertEvent, dispatched,
                 delivered, check, w, parseCall>>

\* tracking API: prisma.trackedAddress.count({ where: { isActive: true } })
AddNewCountTotal(r) ==
  /\ req[r].pc = "countTotal"
  /\ SetReq(r, IF Cardinality(ActiveIds(trackedAddress)) >= maxTrackedTotal
                 THEN Reject(req[r], "total")
                 ELSE [req[r] EXCEPT !.pc = "findExisting"])
  /\ UNCHANGED <<family, head, solCount, chainCursor, trackedAddress, alertEvent, dispatched,
                 delivered, check, w, parseCall>>

\* tracking API: the check for duplicates
AddNewFindExisting(r) ==
  /\ req[r].pc = "findExisting"
  /\ LET x == req[r]
     IN  SetReq(r, IF findFirstTracked(trackedAddress, x.userId, x.chain,
                                       storedAddress(x.chain, x.address))
                     THEN Reject(x, "duplicate")
                     ELSE [x EXCEPT !.pc = "initCursor"])
  /\ UNCHANGED <<family, head, solCount, chainCursor, trackedAddress, alertEvent, dispatched,
                 delivered, check, w, parseCall>>

\* The initial cursor: the latest signature for Solana (no signature when the
\* call fails), the latest block otherwise; getLatestBlockNumber throws when the
\* call fails and when no RPC URL is configured for the chain.
AddNewInitCursor(r, F) ==
  /\ req[r].pc = "initCursor"
  /\ LET x == req[r]
     IN  \E ok \in Outcomes(F, "rpc") :
           SetReq(r, IF x.chain = "sol"
                       THEN [x EXCEPT !.pc = "create",
                               !.cursor = initialCursor(getSignaturesForAddress(
                                            x.address.hex, 1, solCount[x.address.hex], ok))]
                     ELSE IF x.chain \notin EvmChainSet \/ ~ok THEN Reject(x, "rpc")
                     ELSE [x EXCEPT !.pc = "create", !.cursor = ToString(head[x.chain])])
  /\ UNCHANGED <<family, head, solCount, chainCursor, trackedAddress, alertEvent, dispatched,
                 delivered, check, w, parseCall>>

\* prisma.trackedAddress.create
AddNewCreate(r) ==
  /\ req[r].pc = "create"
  /\ LET x == req[r]
         row == TrackedRow(Len(trackedAddress) + 1, x.userId, x.chain,
                           storedAddress(x.chain, x.address), x.minAmount, x.cursor)
     IN  trackedAddress' = Append(trackedAddress, row)
  /\ SetReq(r, [req[r] EXCEPT !.pc = "created"])
  /\ UNCHANGED <<family, head, solCount, chainCursor, alertEvent, dispatched, delivered, check,
                 w, parseCall>>

\* The response is sent and the handler returns.
AddNewRespond(r) ==
  /\ req[r].pc \in {"rejected", "created"}
  /\ SetReq(r, IdleReq)
  /\ UNCHANGED <<family, head, solCount, chainCursor, trackedAddress, alertEvent, dispatched,
                 delivered, check, w, parseCall>>

removeTrackedDelete(rows, id, userId) ==
  SelectSeq(rows, LAMBDA t : ~(t.id = id /\ t.userId = userId))

\* prisma.trackedAddress.updateMany({ where: { id, userId }, data: { isActive: false } })
removeTracked(rows, id, userId) ==
  [i \in 1..Len(rows) |->
     IF rows[i].id = id /\ rows[i].userId = userId
       THEN [rows[i] EXCEPT !.isActive = FALSE] ELSE rows[i]]

\* POST /tracking/remove of a tracked address the user has and that is active
Remove(userId, id) ==
  /\ id \in UserActiveIds(trackedAddress, userId)
  /\ trackedAddress' = removeTracked(trackedAddress, id, userId)
  /\ UNCHANGED <<family, head, solCount, chainCursor, alertEvent, dispatched, delivered,
                 req, check, w, parseCall>>

-----------------------------------------------------------------------------
(* The on-demand check: POST /check and the check-wallet flow of the bot *)

\* solanaService.getRecentTransactions(address): the 20 latest signatures,
\* those with an error and those that cannot be parsed left out; [] when the
\* node fails.  The block time of a signature is its position in the history.
getRecentTransactions(address, count, ok) ==
  LET signatures == getSignaturesForAddress(address, 20, count, ok)
      parsed(i) == parseTransactionAmount(address, signatures[i], ok)
      kept == SelectSeq([i \in 1..Len(signatures) |-> i],
                        LAMBDA i : ~signatures[i].err /\ ~parsed(i).null)
  IN  [k \in 1..Len(kept) |->
         Activity(count - kept[k] + 1, parsed(kept[k]).amount, parsed(kept[k]).direction)]

\* The check of a Solana address at time now: amounts are in 10^-8 SOL
CheckResult(recentActivity, now) ==
  [NoCheck EXCEPT !.recentActivity = recentActivity, !.permuted = recentActivity,
                  !.now = now, !.one = 100000000,
                  !.evaluated = Evaluated(recentActivity),
                  !.riskAnalysis = <<calculateRiskScore(recentActivity, now, 100000000)>>,
                  !.riskAnalysisPermuted =
                     <<calculateRiskScore(recentActivity, now, 100000000)>>]

CheckWalletBookkeeping(a, F) ==
  /\ family = "sol"
  /\ \E ok \in Outcomes(F, "rpc") :
       /\ check' = CheckResult(getRecentTransactions(a, solCount[a], ok), solCount[a] + 60)
       /\ trackedAddress' =
            [i \in 1..Len(trackedAddress) |->
               IF trackedAddress[i].address.hex = a
                 THEN [trackedAddress[i] EXCEPT !.lastSeenCursor =
                         initialCursor(getSignaturesForAddress(a, 1, solCount[a], ok))]
                 ELSE trackedAddress[i]]
  /\ UNCHANGED <<family, head, solCount, chainCursor, alertEvent, dispatched, delivered,
                 req, w, parseCall>>

\* POST /check for a Solana address: the recent activity is fetched and
\* scored, nothing is stored.
CheckWallet(a, F) ==
  /\ family = "sol"
  /\ \E ok \in Outcomes(F, "rpc") :
       check' = CheckResult(getRecentTransactions(a, solCount[a], ok), solCount[a] + 60)
  /\ UNCHANGED <<family, head, solCount, chainCursor, trackedAddress, alertEvent, dispatched,
                 delivered, req, w, parseCall>>

-----------------------------------------------------------------------------

Init ==
  /\ family \in {"evm", "sol"}
  /\ head = [c \in EvmChainSet |-> 0]
  /\ solCount = [a \in SolAddresses |-> 0]
  /\ chainCursor = [c \in EvmChainSet |-> [present |-> FALSE, lastBlockNumber |-> 0]]
  /\ trackedAddress = InitialTracked
  /\ alertEvent = [key \in AlertKeys |-> <<>>]
  /\ dispatched = [key \in AlertKeys |-> 0]
  /\ delivered = {}
  /\ req = [r \in Requests |-> IdleReq]
  /\ check = NoCheck
  /\ parseCall = NoParse
  /\ w = [p \in Workers |-> IdleW]

\* One step of a polling cycle that keeps running: no failure of the tracked
\* address load of pollSolana and no termination of the process.
Poll(p, F) ==
  \/ EvmStart(p, F)
  \/ EvmReadCursor(p, F)
  \/ EvmInitHead(p, F)
  \/ EvmInitCreate(p, F)
  \/ EvmLoadTracked(p, F)
  \/ EvmScan(p, F)
  \/ EvmLoop(p, F)
  \/ EvmCreate(p, F)
  \/ EvmSend(p, F)
  \/ EvmMark(p, F)
  \/ EvmUpdate(p, F)
  \/ EvmCatch(p, F)
  \/ SolStart(p, F)
  \/ SolLoadTracked(p, F)
  \/ SolScan(p, F)
  \/ SolLoop(p, F)
  \/ SolCreate(p, F)
  \/ SolSend(p, F)
  \/ SolMark(p, F)
  \/ SolUpdate(p, F)
  \/ SolCatch(p, F)

\* One step of a worker process, its outer catch and its termination included.
Step(p, F) ==
  \/ Poll(p, F)
  \/ SolCatchOuter(p, F)
  \/ Crash(p, F)

TwoFaults == {"telegram"}

Next ==
  \/ \E p \in Workers : Poll(p, TwoFaults)
  \/ HeadChange("eth", MaxHeadTwo)
  \/ \E a \in SolAddresses : NewSignature(a, MaxSigsTwo)

Spec == Init /\ [][Next]_vars

NextOne ==
  \/ Step("w1", AllFaults)
  \/ HeadChange("eth", MaxHead)
  \/ \E a \in SolAddresses : NewSignature(a, MaxSigs)

SpecOne == Init /\ [][NextOne]_vars

-----------------------------------------------------------------------------
(* One worker whose cycles keep running and whose dispatches and ledger
   updates succeed whenever they are attempted again and again *)

\* telegramService.sendMessage returns
SendOk(p) ==
  /\ EvmSend(p, AllFaults) \/ SolSend(p, AllFaults)
  /\ w'[p].pc \in {"evmMark", "solMark"}

\* prisma.alertEvent.updateMany sets sentToTelegram
MarkOk(p) ==
  /\ EvmMark(p, AllFaults) \/ SolMark(p, AllFaults)
  /\ alertEvent' # alertEvent

\* setTimeout(runWorker, 5000): the loop goes on after every cycle
KeepsRunning(p) == Poll(p, AllFaults) \/ SolCatchOuter(p, AllFaults)

NextFair ==
  \/ Step("w1", AllFaults)
  \/ HeadChange("eth", MaxHeadTwo)
  \/ \E a \in SolAddresses : NewSignature(a, MaxSigsTwo)

SpecFair ==
  /\ Init /\ [][NextFair]_vars
  /\ WF_vars(KeepsRunning("w1"))
  /\ SF_vars(SendOk("w1"))
  /\ SF_vars(MarkOk("w1"))

\* The same worker with RPC nodes that may never answer
NextHang ==
  \/ Step("w1", AllFaults)
  \/ RpcHang("w1")
  \/ HeadChange("eth", MaxHeadTwo)
  \/ \E a \in SolAddresses : NewSignature(a, MaxSigsTwo)

SpecHang == Init /\ [][NextHang]_vars /\ WF_vars(KeepsRunning("w1"))

-----------------------------------------------------------------------------
(* One worker, and Solana addresses that are registered while it runs *)

InitReg ==
  /\ family \in {"evm", "sol"}
  /\ head = [c \in EvmChainSet |-> 0]
  /\ solCount = [a \in SolAddresses |-> 0]
  /\ chainCursor = [c \in EvmChainSet |-> [present |-> FALSE, lastBlockNumber |-> 0]]
  /\ trackedAddress = findManyTracked(InitialTracked, "eth")
  /\ alertEvent = [key \in AlertKeys |-> <<>>]
  /\ dispatched = [key \in AlertKeys |-> 0]
  /\ delivered = {}
  /\ req = [r \in Requests |-> IdleReq]
  /\ check = NoCheck
  /\ parseCall = NoParse
  /\ w = [p \in Workers |-> IdleW]

NextReg ==
  \/ Step("w1", AllFaults)
  \/ \E a \in SolAddresses : Register(a, AllFaults)
  \/ HeadChange("eth", MaxHeadTwo)
  \/ \E a \in SolAddresses : NewSignature(a, MaxSigsTwo)

SpecReg == InitReg /\ [][NextReg]_vars

-----------------------------------------------------------------------------
(* One worker, and users who register, remove and check addresses while it
   runs *)

NextUse ==
  \/ Poll("w1", {"storage"})
  \/ Register("S1", {})
  \/ \E userId \in Users, id \in 1..Len(InitialTracked) : Remove(userId, id)
  \/ CheckWallet("S1", {})
  \/ HeadChange("eth", MaxHeadTwo)
  \/ NewSignature("S1", MaxSigsTwo)

SpecUse == InitReg /\ [][NextUse]_vars

-----------------------------------------------------------------------------
(* The registration requests alone, two at a time *)

InitAdd ==
  /\ family = "sol"
  /\ head = [c \in EvmChainSet |-> 0]
  /\ solCount = [a \in SolAddresses |-> 0]
  /\ chainCursor = [c \in EvmChainSet |-> [present |-> FALSE, lastBlockNumber |-> 0]]
  /\ trackedAddress = <<>>
  /\ alertEvent = [key \in AlertKeys |-> <<>>]
  /\ dispatched = [key \in AlertKeys |-> 0]
  /\ delivered = {}
  /\ req = [r \in Requests |-> IdleReq]
  /\ check = NoCheck
  /\ parseCall = NoParse
  /\ w = [p \in Workers |-> IdleW]

\* What a request can carry
RequestChains == {"eth", "sol", "bsc"}

RequestAddresses == {Addr("a", FALSE), Addr("a", TRUE), Addr("S1", FALSE), Addr("zz", FALSE)}

RequestAmounts == {0 - 1, 2}

NextAdd ==
  \/ \E r \in Requests, path \in {"api", "telegram"}, userId \in Users,
        chain \in RequestChains, address \in RequestAddresses, minAmount \in RequestAmounts :
       AddNewStart(r, path, userId, chain, address, minAmount)
  \/ \E r \in Requests : AddNewCountTotal(r)
  \/ \E r \in Requests : AddNewFindExisting(r)
  \/ \E r \in Requests : AddNewInitCursor(r, {"rpc"})
  \/ \E r \in Requests : AddNewCreate(r)
  \/ \E r \in Requests : AddNewRespond(r)

SpecAdd == InitAdd /\ [][NextAdd]_vars

-----------------------------------------------------------------------------
(* The risk score of activity lists.  A list is a base list of up to MaxLen
   records followed by a number of equal records, one record every Gap
   seconds, analysed some time after its last record. *)

\* Amounts in eighths: 1 and 15 have three decimals, 2, 20 and 120 at most two
Records == {<<amount, direction>> : amount \in {1, 2, 15, 120}, direction \in {"in", "out"}}

BaseLists == UNION {[1..n -> Records] : n \in 0..MaxLen}

\* The list: record i has timestamp (i - 1) * gap
ActivityList(base, filler, repeat, gap) ==
  [i \in 1..(Len(base) + repeat) |->
     LET record == IF i <= Len(base) THEN base[i] ELSE filler
     IN  Activity((i - 1) * gap, record[1], record[2])]

\* The list backwards, and the list with its first record moved to the end
Reorderings(list) ==
  { [i \in 1..Len(list) |-> list[Len(list) + 1 - i]],
    [i \in 1..Len(list) |-> list[(i % Len(list)) + 1]] }

InitRisk ==
  /\ family = "risk"
  /\ head = [c \in EvmChainSet |-> 0]
  /\ solCount = [a \in SolAddresses |-> 0]
  /\ chainCursor = [c \in EvmChainSet |-> [present |-> FALSE, lastBlockNumber |-> 0]]
  /\ trackedAddress = <<>>
  /\ alertEvent = [key \in AlertKeys |-> <<>>]
  /\ dispatched = [key \in AlertKeys |-> 0]
  /\ delivered = {}
  /\ req = [r \in Requests |-> IdleReq]
  /\ parseCall = NoParse
  /\ w = [p \in Workers |-> IdleW]
  /\ \E base \in BaseLists, filler \in {<<20, "in">>, <<2, "out">>, <<1, "out">>},
        repeat \in {0, 1, 7, 12}, gap \in {60, 600, 86400}, delay \in {3600, 20 * 86400} :
       LET list == ActivityList(base, filler, repeat, gap)
       IN  \E permuted \in Reorderings(list) :
             check = [NoCheck EXCEPT !.recentActivity = list, !.permuted = permuted,
                                     !.now = (Len(list) * gap) + delay, !.one = 8]

\* riskService.calculateRiskScore(recentActivity), for the list and for the
\* same records in the other order
Calculate ==
  /\ check.riskAnalysis = <<>>
  /\ check' = [check EXCEPT
                 !.evaluated = Evaluated(check.recentActivity),
                 !.riskAnalysis =
                    <<calculateRiskScore(check.recentActivity, check.now, check.one)>>,
                 !.riskAnalysisPermuted =
                    <<calculateRiskScore(check.permuted, check.now, check.one)>>]
  /\ UNCHANGED <<family, head, solCount, chainCursor, trackedAddress, alertEvent, dispatched,
                 delivered, req, w, parseCall>>

NextRisk == Calculate

SpecRisk == InitRisk /\ [][NextRisk]_vars

-----------------------------------------------------------------------------
(* parseTransactionAmount on transactions in which the balance of the target
   address S1 changes by any delta of -MaxDelta..MaxDelta lamports *)

InitParse ==
  /\ family = "parse"
  /\ head = [c \in EvmChainSet |-> 0]
  /\ solCount = [a \in SolAddresses |-> 0]
  /\ chainCursor = [c \in EvmChainSet |-> [present |-> FALSE, lastBlockNumber |-> 0]]
  /\ trackedAddress = <<>>
  /\ alertEvent = [key \in AlertKeys |-> <<>>]
  /\ dispatched = [key \in AlertKeys |-> 0]
  /\ delivered = {}
  /\ req = [r \in Requests |-> IdleReq]
  /\ check = NoCheck
  /\ w = [p \in Workers |-> IdleW]
  /\ \E delta \in (0 - MaxDelta)..MaxDelta, before \in {MaxDelta, 2 * MaxDelta},
        first \in BOOLEAN :
       parseCall = [NoParse EXCEPT !.tx =
                   << IF first
                        THEN SolSig("x", FALSE, <<"S1", "X">>, <<before, 100>>,
                                    <<before + delta, 100 - delta>>)
                        ELSE SolSig("x", FALSE, <<"X", "S1">>, <<100, before>>,
                                    <<100 - delta, before + delta>>) >>]

\* solanaService.parseTransactionAmount(tracked.address, sig.signature)
Parse ==
  /\ parseCall.tx # <<>> /\ parseCall.result = <<>>
  /\ parseCall' = [parseCall EXCEPT !.result = <<parseTransactionAmount("S1", parseCall.tx[1], TRUE)>>]
  /\ UNCHANGED <<family, head, solCount, chainCursor, trackedAddress, alertEvent, dispatched,
                 delivered, req, check, w>>

NextParse == Parse

SpecParse == InitParse /\ [][NextParse]_vars

-----------------------------------------------------------------------------
(* The EVM chains alone: one worker, a user who registers the address a on
   eth while the worker runs, checks of that address, and a chain that grows.
   No address is tracked at the start. *)

\* The chain grows: eth_blockNumber answers with a greater height.
HeadAdvance(c, max) ==
  /\ \E h \in (head[c] + 1)..max : head' = [head EXCEPT ![c] = h]
  /\ UNCHANGED <<family, solCount, chainCursor, trackedAddress, alertEvent, dispatched,
                 delivered, w, req, check, parseCall>>

\* POST /check for an address of an EVM chain: the recent activity is fetched
\* and scored, nothing is stored.
EvmCheckWallet(chain, a, F) ==
  /\ \E ok \in Outcomes(F, "rpc") :
       LET r == evmGetRecentTransactions(chain, a, head[chain], ok, {})
       IN  check' = [CheckResult(r.activity, BlockTimestamp(head[chain]) + 60)
                       EXCEPT !.fetched = r.fetched]
  /\ UNCHANGED <<family, head, solCount, chainCursor, trackedAddress, alertEvent, dispatched,
                 delivered, req, w, parseCall>>

\* One step of pollEvmChains
PollEvm(p, F) ==
  \/ EvmStart(p, F)
  \/ EvmReadCursor(p, F)
  \/ EvmInitHead(p, F)
  \/ EvmInitCreate(p, F)
  \/ EvmLoadTracked(p, F)
  \/ EvmScan(p, F)
  \/ EvmLoop(p, F)
  \/ EvmCreate(p, F)
  \/ EvmSend(p, F)
  \/ EvmMark(p, F)
  \/ EvmUpdate(p, F)
  \/ EvmCatch(p, F)

InitEvm ==
  /\ family = "evm"
  /\ head = [c \in EvmChainSet |-> 0]
  /\ solCount = [a \in SolAddresses |-> 0]
  /\ chainCursor = [c \in EvmChainSet |-> [present |-> FALSE, lastBlockNumber |-> 0]]
  /\ trackedAddress = <<>>
  /\ alertEvent = [key \in AlertKeys |-> <<>>]
  /\ dispatched = [key \in AlertKeys |-> 0]
  /\ delivered = {}
  /\ req = [r \in Requests |-> IdleReq]
  /\ check = NoCheck
  /\ parseCall = NoParse
  /\ w = [p \in Workers |-> IdleW]

NextEvm ==
  \/ PollEvm("w1", {"rpc"})
  \/ AddNewStart("r1", "api", 1, "eth", Addr("a", FALSE), 2)
  \/ AddNewCountTotal("r1")
  \/ AddNewFindExisting("r1")
  \/ AddNewInitCursor("r1", {})
  \/ AddNewCreate("r1")
  \/ AddNewRespond("r1")
  \/ EvmCheckWallet("eth", Addr("a", FALSE), {})
  \/ HeadAdvance("eth", MaxHeadScan)

SpecEvm == InitEvm /\ [][NextEvm]_vars

-----------------------------------------------------------------------------
(* Properties *)

EvmBusy(x) == x.pc \in {"evmLoop", "evmCreate", "evmSend", "evmMark", "evmUpdate"}

\* The pairs of a cycle that reach the duplicate check
QualifyingPairs(x) ==
  {k \in 1..NPairs(x) : EvmQualifies(PairTx(x, k), PairTracked(x, k))}

Details(row) == [row EXCEPT !.sentToTelegram = FALSE]

\* C1: in every reachable state the alert ledger holds at most one AlertEvent
\* for each (chain, transaction identifier, monitored entity id).
C1_UniqueTriple == \A key \in AlertKeys : Len(alertEvent[key]) <= 1

\* Two workers scanned the same transaction for the same entity: one stored the
\* AlertEvent, the insert of the other was rejected.
C1_Witness ==
  \E p \in Workers :
    /\ w[p].pc = "evmCatch" /\ w[p].error = "unique" /\ w[p].k > 0
    /\ Len(alertEvent[PairKey(w[p], w[p].k)]) = 1

\* C2: for each (chain, transaction identifier, monitored entity) at most one
\* alert is handed to the Notification Dispatcher, also when two workers run
\* overlapping cycles over the same blocks or signatures.
C2_DispatchedAtMostOnce == \A key \in AlertKeys : dispatched[key] <= 1

\* Two workers have both finished the loops of a cycle over the same
\* transactions, and each qualifying pair was dispatched exactly once.
C2_Witness ==
  \E p, q \in Workers :
    /\ p # q
    /\ w[p].pc = "evmUpdate" /\ w[q].pc = "evmUpdate" /\ w[p].ci = w[q].ci
    /\ w[p].transactions # <<>> /\ w[p].transactions = w[q].transactions
    /\ QualifyingPairs(w[p]) # {}
    /\ \A k \in QualifyingPairs(w[p]) : dispatched[PairKey(w[p], k)] = 1

\* C3: over the poll cycles of one worker, whatever chain head the node
\* reports, the stored ChainCursor of a chain never decreases.
C3_CursorMonotonic ==
  [][\A c \in EvmChainSet :
       chainCursor[c].present =>
         chainCursor'[c].lastBlockNumber >= chainCursor[c].lastBlockNumber]_vars

\* C4: when an EVM cycle writes the ChainCursor, every qualifying transaction
\* of the window it scanned (the blocks after the cursor it read, up to the
\* cursor it writes) has an AlertEvent.
C4_CursorAfterAlerts ==
  [][\A p \in Workers :
       (w[p].pc = "evmUpdate" /\ w'[p] # w[p] /\ chainCursor' # chainCursor) =>
         \A b \in (w[p].lastBlockNumber + 1)..w[p].newCursor :
           \A i \in 1..Len(BlockTransactions(Chain(w[p]), b)) :
             \A j \in 1..Len(w[p].tracked) :
               EvmQualifies(BlockTransactions(Chain(w[p]), b)[i], w[p].tracked[j]) =>
                 alertEvent[Key(Chain(w[p]), BlockTransactions(Chain(w[p]), b)[i].hash,
                                w[p].tracked[j].id)] # <<>>]_vars

\* C5: the new cursor scanNewBlocks returns is below every block of the window
\* whose fetch failed, so the cursor never passes a block that was not fetched.
C5_CursorCappedAtFetched ==
  \A p \in Workers :
    EvmBusy(w[p]) => \A b \in w[p].skipped : w[p].newCursor < b

\* C6 as stated: when a poll cycle has thrown, every cursor of the family has
\* its value of the start of the cycle (for Solana, the value findMany read).
C6_AllCursorsUnchanged ==
  \A p \in Workers :
    /\ (w[p].pc = "evmCatch" /\ w[p].found) =>
         chainCursor[Chain(w[p])].lastBlockNumber = w[p].lastBlockNumber
    /\ w[p].pc = "solCatch" =>
         \A i \in 1..Len(w[p].tracked) :
           trackedAddress[w[p].tracked[i].id].lastSeenCursor = w[p].tracked[i].lastSeenCursor

\* C6 amended: when the poll of one chain, or the scan of one Solana entity,
\* has thrown, the cursor of that chain, or of that entity, has the value the
\* cycle read for it; a chain whose first head read failed has no cursor.
C6_OwnCursorUnchanged ==
  \A p \in Workers :
    /\ (w[p].pc = "evmCatch" /\ w[p].found) =>
         chainCursor[Chain(w[p])] = [present |-> TRUE, lastBlockNumber |-> w[p].lastBlockNumber]
    /\ (w[p].pc = "evmCatch" /\ w[p].error = "rpc") => ~chainCursor[Chain(w[p])].present
    /\ w[p].pc = "solCatch" =>
         trackedAddress[Tracked(w[p]).id].lastSeenCursor = Tracked(w[p]).lastSeenCursor

\* The scan of a Solana entity threw after it had found new signatures, in a
\* cycle that had already advanced the cursor of an earlier entity.
C6_Witness ==
  \E p \in Workers :
    /\ w[p].pc = "solCatch" /\ w[p].si > 0 /\ w[p].ei > 1
    /\ w[p].solCursor # Tracked(w[p]).lastSeenCursor
    /\ \E i \in 1..(w[p].ei - 1) :
         trackedAddress[w[p].tracked[i].id].lastSeenCursor # w[p].tracked[i].lastSeenCursor

\* C7: a matched record is alerted iff its amount is at least the minAmount of
\* the entity: no stored AlertEvent is below its entity's threshold, and once
\* a worker has gone through the records of a scan, every matched record at or
\* above the threshold has its AlertEvent.
C7_ThresholdInclusive ==
  /\ \A key \in AlertKeys : \A i \in 1..Len(alertEvent[key]) :
       alertEvent[key][i].amount >= trackedAddress[key[3]].minAmount
  /\ \A p \in Workers :
       /\ w[p].pc = "evmUpdate" =>
            \A k \in 1..NPairs(w[p]) :
              (/\ EvmMatches(PairTx(w[p], k), PairTracked(w[p], k))
               /\ weiToEth(PairTx(w[p], k).value) >= PairTracked(w[p], k).minAmount)
                => alertEvent[PairKey(w[p], k)] # <<>>
       /\ w[p].pc = "solUpdate" =>
            \A i \in 1..Len(w[p].signatures) :
              LET sig == w[p].signatures[i]
                  parsed == parseTransactionAmount(Tracked(w[p]).address.hex, sig, TRUE)
              IN  (/\ ~sig.err /\ sig.signature \notin w[p].unparsed /\ ~parsed.null
                   /\ parsed.amount >= Tracked(w[p]).minAmount)
                    => alertEvent[SigKey(w[p], i)] # <<>>

\* A cycle went through a transfer whose amount equals the threshold of one
\* entity and is one unit below the threshold of another: the first has its
\* AlertEvent, the second has none.
C7_Witness ==
  \E p \in Workers :
    /\ w[p].pc = "evmUpdate"
    /\ \E k, m \in 1..NPairs(w[p]) :
         /\ PairTx(w[p], k) = PairTx(w[p], m)
         /\ EvmMatches(PairTx(w[p], k), PairTracked(w[p], k))
         /\ EvmMatches(PairTx(w[p], m), PairTracked(w[p], m))
         /\ weiToEth(PairTx(w[p], k).value) = PairTracked(w[p], k).minAmount
         /\ weiToEth(PairTx(w[p], m).value) = PairTracked(w[p], m).minAmount - 1
         /\ Len(alertEvent[PairKey(w[p], k)]) = 1
         /\ alertEvent[PairKey(w[p], m)] = <<>>

\* C8: a second attempt to record a (chain, txId, entityId) that is stored
\* creates nothing: the loop skips the record without an insert, and no step
\* adds a row to a stored key or changes the details of a stored row.
C8_RecordIdempotent ==
  [][/\ \A key \in AlertKeys :
          alertEvent[key] # <<>> =>
            /\ Len(alertEvent'[key]) = Len(alertEvent[key])
            /\ \A i \in 1..Len(alertEvent[key]) :
                 Details(alertEvent'[key][i]) = Details(alertEvent[key][i])
     /\ \A p \in Workers :
          LET k == NextPair(w[p], w[p].k)
          IN  (/\ w[p].pc = "evmLoop" /\ w'[p] # w[p] /\ k <= NPairs(w[p])
               /\ alertEvent[PairKey(w[p], k)] # <<>>)
                => w'[p].pc # "evmCreate"]_vars

\* A cycle is run again with the cursor it had before (the earlier cycle did
\* not advance it) and has found the AlertEvent of the earlier cycle.
C8_Witness ==
  \E p \in Workers :
    /\ w[p].pc \in {"evmLoop", "evmUpdate"} /\ w[p].existing /\ w[p].k > 1
    /\ chainCursor[Chain(w[p])].lastBlockNumber = w[p].lastBlockNumber
    /\ alertEvent[PairKey(w[p], w[p].k - 1)] # <<>>

\* C9: a uniqueness violation on the insert of an AlertEvent does not abort the
\* cycle: no worker is in the catch of the cycle with that error.
C9_ConflictProceeds ==
  \A p \in Workers :
    /\ ~(w[p].pc = "evmCatch" /\ w[p].error = "unique" /\ w[p].k > 0)
    /\ ~(w[p].pc = "solCatch" /\ w[p].error = "unique")

\* C10: a worker that advances the cursor from a value it read, while the other
\* worker has stored a higher one since, does not overwrite the stored cursor
\* with a lower value.
C10_NoLostUpdate ==
  [][\A p \in Workers :
       (/\ w[p].pc = "evmUpdate" /\ w'[p] # w[p]
        /\ w[p].newCursor > w[p].lastBlockNumber
        /\ chainCursor[Chain(w[p])].lastBlockNumber > w[p].lastBlockNumber)
         => chainCursor'[Chain(w[p])].lastBlockNumber
              >= chainCursor[Chain(w[p])].lastBlockNumber]_vars

\* C11: an AlertEvent has sentToTelegram set only if a sendMessage call for it
\* returned successfully, so after a failed dispatch the event is stored with
\* sentToTelegram = false; and a dispatch is attempted only for an AlertEvent
\* that has been created.
C11_DeliveredOnlyAfterSuccess ==
  \A key \in AlertKeys :
    /\ \A i \in 1..Len(alertEvent[key]) :
         alertEvent[key][i].sentToTelegram => key \in delivered
    /\ dispatched[key] >= 1 => alertEvent[key] # <<>>

\* The dispatch of a stored AlertEvent failed and the cycle is over: the event
\* is stored, not marked as sent.
C11_Witness ==
  \E key \in AlertKeys :
    /\ dispatched[key] = 1 /\ key \notin delivered
    /\ Len(alertEvent[key]) = 1 /\ ~alertEvent[key][1].sentToTelegram
    /\ w["w1"].pc = "idle"

\* C12: with cycles that keep running and a dispatcher that succeeds when it
\* is tried again and again, every stored AlertEvent is eventually marked as
\* sent: an event left undelivered is dispatched again by a later cycle.
C12_EventuallyDelivered ==
  \A key \in AlertKeys :
    (alertEvent[key] # <<>>) ~> (alertEvent[key] # <<>> /\ alertEvent[key][1].sentToTelegram)

SolBusy(x) ==
  x.pc \in {"solScan", "solLoop", "solCreate", "solSend", "solMark", "solUpdate", "solCatch"}

\* C13: in a Solana cycle of one worker, an entity whose scan threw leaves the
\* other entities alone: the cycle goes on with the next entity, the cursors
\* of the entities not yet scanned, and of the one that threw, are the ones
\* the cycle read, and an entity scanned after the failure gets the cursor
\* its own scan produced.
C13_OtherEntitiesScanned ==
  /\ [](SolBusy(w["w1"]) =>
         \A i \in 1..Len(w["w1"].tracked) :
           (i > w["w1"].ei \/ w["w1"].tracked[i].id \in w["w1"].thrown) =>
             trackedAddress[w["w1"].tracked[i].id].lastSeenCursor
               = w["w1"].tracked[i].lastSeenCursor)
  /\ [][/\ SolCatch("w1", AllFaults) =>
            /\ trackedAddress' = trackedAddress
            /\ w["w1"].ei < Len(w["w1"].tracked) =>
                 /\ w'["w1"].pc = "solScan"
                 /\ w'["w1"].ei = w["w1"].ei + 1
                 /\ w'["w1"].tracked = w["w1"].tracked
        /\ (/\ w["w1"].pc = "solUpdate" /\ w["w1"].thrown # {}
            /\ trackedAddress' # trackedAddress) =>
              trackedAddress' = writeLastSeen(trackedAddress, Tracked(w["w1"]).id,
                                              w["w1"].solCursor)]_vars

\* The scan of the first Solana entity threw, and the same cycle has scanned
\* the second one and gone through its new signatures.
C13_Witness ==
  /\ w["w1"].pc = "solUpdate" /\ w["w1"].ei > 1
  /\ w["w1"].tracked[1].id \in w["w1"].thrown
  /\ w["w1"].solCursor # Tracked(w["w1"]).lastSeenCursor
  /\ Len(w["w1"].signatures) > 0

\* The head of the page getSignaturesForAddress returns for an address now
PageHead(a) == SolHistory(a)[solCount[a]].signature

\* C14: when the scan of a Solana entity fetched a non-empty page, the cursor
\* of the entity becomes the head signature of that page: the scan keeps the
\* head as the new cursor, or the stored cursor is the head already when no
\* signature is new; the new cursor is kept through the loop over the
\* signatures, whatever they are, and is what the cursor update stores.
C14_CursorIsPageHead ==
  [][LET x == w["w1"]
         a == Tracked(x).address.hex
     IN  /\ (SolScan("w1", {}) /\ solCount[a] > 0) =>
              IF w'["w1"].pc = "solLoop"
                THEN w'["w1"].solCursor = PageHead(a)
                ELSE trackedAddress[Tracked(x).id].lastSeenCursor = PageHead(a)
         /\ (/\ x.pc \in {"solLoop", "solCreate", "solSend", "solMark"}
             /\ w'["w1"].pc \in {"solLoop", "solCreate", "solSend", "solMark", "solUpdate"}) =>
              w'["w1"].solCursor = x.solCursor /\ w'["w1"].ei = x.ei
         /\ SolUpdate("w1", {}) =>
              trackedAddress'[Tracked(x).id].lastSeenCursor = x.solCursor]_vars

\* An earlier cycle alerted s1 for the first Solana entity; later cycles, which
\* found only a failed transaction and a transfer below the threshold, created
\* no AlertEvent and moved the cursor to the head of their page.
C14_Witness ==
  /\ trackedAddress[3].lastSeenCursor = "s3"
  /\ alertEvent[Key("sol", "s1", 3)] # <<>>
  /\ alertEvent[Key("sol", "s2", 3)] = <<>>
  /\ alertEvent[Key("sol", "s3", 3)] = <<>>
  /\ w["w1"].pc = "idle"

\* C15: the cursor of a Solana entity is not written by a cycle in which the
\* fetch of the transaction of one of its new signatures failed, so that the
\* signature is new again in the next cycle.
C15_CursorNotPastFailedFetch ==
  [][\A p \in Workers :
       (w[p].pc = "solUpdate" /\ trackedAddress' # trackedAddress) => w[p].unparsed = {}]_vars

C18_NoOverlapSameFamily ==
  [][\A p \in Workers :
       (/\ w'[p] # w[p]
        /\ \/ w'[p].pc = "evmRead" /\ w'[p].ci = 1
           \/ w'[p].pc = "solTracked") => w[p].pc = "idle"]_vars

\* A cycle over the EVM chains is scanning eth after an earlier cycle went
\* through all the chains and advanced the eth cursor.
C18_Witness ==
  /\ w["w1"].pc = "evmLoop" /\ w["w1"].ci = 1
  /\ chainCursor["avax"].present
  /\ w["w1"].lastBlockNumber >= 1

\* C19: while an RPC call of a cycle of one family is in flight, the worker
\* can start a cycle of the other family.
C19_FamiliesIndependent ==
  \A p \in Workers :
    /\ w[p].pc \in {"evmInit", "evmScan"} => ENABLED SolStart(p, AllFaults)
    /\ w[p].pc \in {"solScan", "solLoop"} => ENABLED EvmStart(p, AllFaults)

\* The position of a signature in the history of an address: 1 is the oldest
SigPosition(a, sig) ==
  CHOOSE i \in 1..Len(SolHistory(a)) : SolHistory(a)[i].signature = sig

\* C17: no AlertEvent of a Solana entity is for a signature that existed for
\* the address when the entity was registered.
C17_NoAlertBeforeRegistration ==
  \A key \in AlertKeys :
    (key[1] = "sol" /\ alertEvent[key] # <<>>) =>
      SigPosition(trackedAddress[key[3]].address.hex, key[2])
        > trackedAddress[key[3]].createdAt

\* C20: every cycle a worker has started comes to its end.
C20_CycleFinishes == (w["w1"].pc # "idle") ~> (w["w1"].pc = "idle")

\* C21: each user has at most maxTrackedPerUser active entities and there are
\* at most maxTrackedTotal active entities.
C21_LimitsHold ==
  /\ \A userId \in Users :
       Cardinality(UserActiveIds(trackedAddress, userId)) <= maxTrackedPerUser
  /\ Cardinality(ActiveIds(trackedAddress)) <= maxTrackedTotal

\* C22: no two active entities have the same user, chain and normalized address.
C22_ActiveUnique ==
  \A i, j \in ActiveIds(trackedAddress) :
    (/\ trackedAddress[i].userId = trackedAddress[j].userId
     /\ trackedAddress[i].chain = trackedAddress[j].chain
     /\ normalizeAddress(trackedAddress[i].address) = normalizeAddress(trackedAddress[j].address))
      => i = j

\* C23: every stored entity has a supported chain, an address of the format
\* of its chain and a threshold that is not below zero.
C23_StoredEntitiesValid ==
  \A i \in 1..Len(trackedAddress) :
    /\ trackedAddress[i].chain \in validChains
    /\ trackedAddress[i].chain = "sol" =>
         trackedAddress[i].address.hex \in SolAddresses /\ ~trackedAddress[i].address.lower
    /\ trackedAddress[i].chain # "sol" => trackedAddress[i].address.hex \in EvmHex
    /\ trackedAddress[i].minAmount >= 0

\* Three registrations were refused and one stored: a request of the bot with
\* a chain that is not supported, refused when its initial cursor is read, and
\* requests with a malformed address and a threshold below zero, refused by
\* the validation.
C23_Witness ==
  /\ req["r1"].pc = "rejected" /\ req["r1"].path = "telegram"
  /\ req["r1"].chain = "bsc" /\ req["r1"].error = "rpc"
  /\ req["r2"].pc = "rejected" /\ req["r2"].error \in {"address", "minAmount"}
  /\ Len(trackedAddress) >= 1

\* The analysis of the list that was checked
Analysis == check.riskAnalysis[1]

\* C26: calculateRiskScore returns an integer score in [0,100] and the level
\* that belongs to the score: low below 25, medium for 25-49, high for 50-69,
\* critical from 70.
C26_ScoreRangeAndLevel ==
  check.riskAnalysis # <<>> =>
    /\ Analysis.riskScore \in 0..100
    /\ Analysis.riskLevel =
         (IF Analysis.riskScore < 25 THEN "low"
          ELSE IF Analysis.riskScore <= 49 THEN "medium"
          ELSE IF Analysis.riskScore <= 69 THEN "high"
          ELSE "critical")

\* A list whose score is exactly a threshold of a level was analysed.
C26_Witness ==
  /\ check.riskAnalysis # <<>>
  /\ Analysis.riskScore = 70
  /\ Analysis.riskLevel = "critical"

\* C27: two lists of the same records in different orders, analysed at the
\* same time, get the same score, level and reasons.
C27_PermutationInvariant ==
  check.riskAnalysis # <<>> => check.riskAnalysis = check.riskAnalysisPermuted

\* C28: the empty list gets score 0, level low and the no-activity reason as
\* its only reason, no analyzer runs and there is no line with the number of
\* records.
C28_EmptyShortCircuit ==
  (check.riskAnalysis # <<>> /\ Len(check.recentActivity) = 0) =>
    /\ Analysis = [riskScore |-> 0, riskLevel |-> "low",
                   reasons |-> <<"No recent activity detected">>]
    /\ check.evaluated = {}

\* The empty list was analysed.
C28_Witness ==
  /\ check.riskAnalysis # <<>>
  /\ check.recentActivity = <<>>
  /\ Len(Analysis.reasons) = 1

\* C24: removing a tracked address only clears its active flag, no step
\* deletes a tracked address or an AlertEvent, and every AlertEvent is for a
\* tracked address that exists.
C24_SoftDeleteOnly ==
  /\ [](\A key \in AlertKeys :
          alertEvent[key] # <<>> =>
            /\ key[3] \in 1..Len(trackedAddress)
            /\ trackedAddress[key[3]].id = key[3])
  /\ [][/\ Len(trackedAddress') >= Len(trackedAddress)
         /\ \A i \in 1..Len(trackedAddress) :
              /\ trackedAddress'[i].id = trackedAddress[i].id
              /\ (trackedAddress[i].isActive /\ ~trackedAddress'[i].isActive) =>
                   /\ trackedAddress' =
                        [trackedAddress EXCEPT ![i] = [@ EXCEPT !.isActive = FALSE]]
                   /\ alertEvent' = alertEvent
         /\ \A key \in AlertKeys : alertEvent[key] # <<>> => alertEvent'[key] # <<>>]_vars

\* A tracked address for which there is an AlertEvent was removed.
C24_Witness ==
  \E key \in AlertKeys :
    /\ alertEvent[key] # <<>>
    /\ key[3] \in 1..Len(trackedAddress)
    /\ ~trackedAddress[key[3]].isActive

\* C25: a step that is not a step of the worker (a registration, a removal,
\* an on-demand check) leaves every ChainCursor, the cursor of every tracked
\* address there is and the alert ledger unchanged.
C25_CursorsOnlyByPoller ==
  [][w' = w =>
       /\ chainCursor' = chainCursor
       /\ alertEvent' = alertEvent
       /\ Len(trackedAddress') >= Len(trackedAddress)
       /\ \A i \in 1..Len(trackedAddress) :
            trackedAddress'[i].lastSeenCursor = trackedAddress[i].lastSeenCursor]_vars

\* An address was checked on demand while it is tracked with a cursor behind
\* its latest signature, after a registration and a removal.
C25_Witness ==
  /\ check.riskAnalysis # <<>>
  /\ Len(check.recentActivity) > 0
  /\ Len(trackedAddress) > Len(findManyTracked(InitialTracked, "eth"))
  /\ \E i \in 1..Len(trackedAddress) : ~trackedAddress[i].isActive
  /\ \E i \in 1..Len(trackedAddress) :
       /\ trackedAddress[i].chain = "sol"
       /\ solCount[trackedAddress[i].address.hex] > 0
       /\ trackedAddress[i].lastSeenCursor = ""

\* The signatures of a page that are positioned before the cursor signature:
\* the whole page when no signature of the page is the cursor
NewBefore(page, cursor) ==
  LET found == {i \in 1..Len(page) : page[i].signature = cursor}
  IN  IF found = {} THEN page
      ELSE SubSeq(page, 1, (CHOOSE i \in found : \A j \in found : i <= j) - 1)

\* C29: getNewSignatures returns as new exactly the signatures of the fetched
\* page that come before the cursor signature: none when the cursor is the
\* head, the prefix when it is deeper in the page, the whole page when there
\* is no cursor or the cursor is not in the page.
C29_NewSignaturesExact ==
  [][SolScan("w1", {}) =>
       LET x == w["w1"]
           a == Tracked(x).address.hex
           new == NewBefore(getSignaturesForAddress(a, sigPageLimit, solCount[a], TRUE),
                            Tracked(x).lastSeenCursor)
       IN  IF new = <<>>
             THEN w'["w1"].pc # "solLoop"
             ELSE w'["w1"].pc = "solLoop" /\ w'["w1"].signatures = new]_vars

\* The scan of an entity whose cursor is older than the page has just
\* returned the whole page.
C29_Witness ==
  LET x == w["w1"]
  IN  /\ x.pc = "solLoop" /\ x.si = 1
      /\ Tracked(x).lastSeenCursor # ""
      /\ \A i \in 1..Len(x.signatures) : x.signatures[i].signature # Tracked(x).lastSeenCursor
      /\ Len(x.signatures) = sigPageLimit
      /\ solCount[Tracked(x).address.hex] > sigPageLimit

\* C30: no AlertEvent is for a signature with an error; the loop steps over
\* such a signature without an exception, and the update at the end of the
\* iteration stores the head of the page when it was among the new signatures.
C30_FailedSignatureSkipped ==
  /\ [](\A key \in AlertKeys :
          (key[1] = "sol" /\ alertEvent[key] # <<>>) =>
            \A a \in SolAddresses : \A i \in 1..Len(SolHistory(a)) :
              SolHistory(a)[i].signature = key[2] => ~SolHistory(a)[i].err)
  /\ [][LET x == w["w1"]
        IN  /\ (/\ SolLoop("w1", {})
                /\ x.si <= Len(x.signatures)
                /\ x.signatures[x.si].err) =>
                 /\ w'["w1"].pc \in {"solLoop", "solCreate", "solUpdate"}
                 /\ w'["w1"].solCursor = x.solCursor
            /\ (/\ SolUpdate("w1", {})
                /\ \E i \in 1..Len(x.signatures) : x.signatures[i].err) =>
                 trackedAddress'[Tracked(x).id].lastSeenCursor
                   = x.signatures[1].signature]_vars

\* A cycle found the failed s2 at the head of the page and s1 behind it:
\* s1 was alerted, s2 was not, and the cursor is s2.
C30_Witness ==
  /\ trackedAddress[3].lastSeenCursor = "s2"
  /\ alertEvent[Key("sol", "s1", 3)] # <<>>
  /\ alertEvent[Key("sol", "s2", 3)] = <<>>
  /\ w["w1"].pc = "idle"

\* The hashes of the transactions of the blocks from..to of a chain that
\* involve one of the tracked addresses of the worker
HashesInBlocks(chain, from, to, tracked) ==
  {BlockTransactions(chain, n)[i].hash :
     <<n, i>> \in {<<n, i>> \in (from..to) \X (1..2) :
                    /\ i <= Len(BlockTransactions(chain, n))
                    /\ \E j \in 1..Len(tracked) :
                         EvmMatches(BlockTransactions(chain, n)[i], tracked[j])}}

EvmTxOf(chain, hash) ==
  CHOOSE tx \in UNION {{BlockTransactions(chain, n)[i] :
                          i \in 1..Len(BlockTransactions(chain, n))} : n \in 0..MaxHead} :
    tx.hash = hash

\* C32: an AlertEvent of an EVM chain has direction out iff the sender of the
\* transaction is the address of the entity and in otherwise, the value
\* converted to the native unit (rounded to 8 decimals) and the native asset
\* of the chain; the update at the end of a scan that reached the head stores
\* the head as the cursor.
C32_EvmAlertContent ==
  /\ [](\A key \in AlertKeys : \A i \in 1..Len(alertEvent[key]) :
          key[1] \in EvmChainSet =>
            LET row == alertEvent[key][i]
                tx == EvmTxOf(key[1], key[2])
            IN  /\ row.direction \in {"in", "out"}
                /\ row.direction = "out" <=> tx.from.hex = trackedAddress[key[3]].address.hex
                /\ (10 * row.amount) - 5 <= tx.value /\ tx.value < (10 * row.amount) + 5
                /\ row.asset = (IF key[1] = "avax" THEN "AVAX" ELSE "ETH"))
  /\ [][(EvmUpdate("w1", {}) /\ w["w1"].newCursor = head[Chain(w["w1"])]) =>
         chainCursor'[Chain(w["w1"])].lastBlockNumber = head[Chain(w["w1"])]]_vars

\* The transfer of block 3, sent by the address of entity 2, was found by a
\* scan from cursor 1 to head 3: there is one AlertEvent for entity 2 with
\* direction out, the converted amount and ETH, and the cursor is the head.
C32_Witness ==
  /\ Len(alertEvent[Key("eth", "t3", 2)]) = 1
  /\ alertEvent[Key("eth", "t3", 2)][1].direction = "out"
  /\ alertEvent[Key("eth", "t3", 2)][1].amount = 3
  /\ alertEvent[Key("eth", "t3", 2)][1].asset = "ETH"
  /\ alertEvent[Key("eth", "t1", 2)] = <<>>
  /\ head["eth"] = 3
  /\ chainCursor["eth"].present /\ chainCursor["eth"].lastBlockNumber = 3
  /\ w["w1"].pc = "idle"

\* The flow sub-score an analysis shows by its reasons
FlowScoreOf(analysis) ==
  IF \E i \in 1..Len(analysis.reasons) :
       analysis.reasons[i] = "Rapid outflow pattern detected (possible layering)" THEN 20
  ELSE IF \E i \in 1..Len(analysis.reasons) :
       analysis.reasons[i] = "Only outflows detected (possible funds distribution)" THEN 15
  ELSE 0

\* C33: the flow sub-score is 20 for a list of at least 3 records with at
\* least 3 outbound records and total-out > 0.8 x total-in, whatever the
\* inbound total is; otherwise 15 with more than 5 outbound and no inbound
\* records; otherwise 0.
C33_FlowSubScore ==
  (check.riskAnalysis # <<>> /\ Len(check.recentActivity) > 0) =>
    LET list == check.recentActivity
        outCount == Cardinality({i \in 1..Len(list) : list[i].direction = "out"})
        inCount == Len(list) - outCount
        totalIn == SumFrom(list, {"in"}, 1, 0)
        totalOut == SumFrom(list, {"out"}, 1, 0)
    IN  FlowScoreOf(Analysis) =
          (IF Len(list) >= 3 /\ outCount >= 3 /\ 5 * totalOut > 4 * totalIn THEN 20
           ELSE IF outCount > 5 /\ inCount = 0 THEN 15
           ELSE 0)

\* The change of the balance of S1 in a transaction, in lamports
DeltaOf(tx) ==
  LET i == CHOOSE i \in 1..Len(tx.accountKeys) : tx.accountKeys[i] = "S1"
  IN  tx.postBalances[i] - tx.preBalances[i]

\* C34: for a balance delta d the direction is in iff d >= 0, the amount is
\* |d| in SOL rounded to 8 decimals, halves away from zero, and the
\* transaction with the opposite delta gets the same amount.
C34_DeltaDirectionAmount ==
  parseCall.result # <<>> =>
    LET tx == parseCall.tx[1]
        d == DeltaOf(tx)
        opposite == parseTransactionAmount("S1", [tx EXCEPT !.preBalances = tx.postBalances,
                                                           !.postBalances = tx.preBalances], TRUE)
    IN  /\ parseCall.result[1].direction = (IF d >= 0 THEN "in" ELSE "out")
        /\ parseCall.result[1].amount = (Abs(d) + 5) \div 10
        /\ parseCall.result[1].amount = opposite.amount

\* C35: the loops of pollEvmChain pass over a pair of transaction and entity
\* only when the transaction does not involve the address of that entity, its
\* amount is below the minAmount of that entity, or an AlertEvent of that very
\* entity for the transaction exists; the pair they stop at gets its own
\* AlertEvent, whatever AlertEvents other entities have for the transaction.
C35_OneAlertPerEntity ==
  /\ [][EvmLoop("w1", {}) =>
          LET x == w["w1"]
              y == w'["w1"]
              tx(j) == x.transactions[((j - 1) \div Len(x.tracked)) + 1]
              entity(j) == x.tracked[((j - 1) % Len(x.tracked)) + 1]
              due(j) == /\ \/ tx(j).from.hex = entity(j).address.hex
                           \/ tx(j).to.hex = entity(j).address.hex
                        /\ weiToEth(tx(j).value) >= entity(j).minAmount
              own(j) == alertEvent[<<Chain(x), tx(j).hash, entity(j).id>>] # <<>>
          IN  /\ \A j \in x.k..(y.k - 1) : ~due(j) \/ own(j)
              /\ y.pc \in {"evmCreate", "evmUpdate", "evmLoop"}
              /\ y.pc = "evmCreate" => due(y.k) /\ ~own(y.k)
              /\ y.pc = "evmLoop" => y.k = x.k + 1 /\ due(x.k) /\ own(x.k)
              /\ y.pc = "evmUpdate" =>
                   y.k > Len(x.transactions) * Len(x.tracked)]_vars
  /\ [][EvmCreate("w1", {}) =>
          LET x == w["w1"]
              tx == x.transactions[((x.k - 1) \div Len(x.tracked)) + 1]
              entity == x.tracked[((x.k - 1) % Len(x.tracked)) + 1]
              key == <<Chain(x), tx.hash, entity.id>>
          IN  alertEvent[key] = <<>> =>
                /\ Len(alertEvent'[key]) = 1
                /\ \A other \in AlertKeys \ {key} :
                     alertEvent'[other] = alertEvent[other]]_vars

\* The transfer of block 3 (amount 3) involves the addresses of entity 1
\* (minAmount 2) and entity 2 (minAmount 3) and has an AlertEvent for each;
\* the transfer of block 1 (amount 2) has one for entity 1 only.
C35_Witness ==
  /\ Len(alertEvent[Key("eth", "t3", 1)]) = 1
  /\ Len(alertEvent[Key("eth", "t3", 2)]) = 1
  /\ Len(alertEvent[Key("eth", "t1", 1)]) = 1
  /\ alertEvent[Key("eth", "t1", 2)] = <<>>
  /\ w["w1"].pc = "idle"

\* C36: no block scan fetches more than the block limit of
\* scanBlocksForAddress: the check of an address asks the node for at most
\* scanMaxBlocks heights, and the window of one scanNewBlocks call of the
\* worker has at most that many.
C36_ScanAtMostLimit ==
  /\ Cardinality(check.fetched) <= scanMaxBlocks
  /\ w["w1"].pc = "evmLoop" =>
       w["w1"].newCursor - w["w1"].lastBlockNumber <= scanMaxBlocks

\* C38: after a check of the address a on eth, the transactions of the head
\* block that involve a are in the recent activity.
C38_RecentWindowEndsAtHead ==
  [][EvmCheckWallet("eth", Addr("a", FALSE), {}) =>
       \A i \in 1..Len(BlockTransactions("eth", head["eth"])) :
         LET tx == BlockTransactions("eth", head["eth"])[i]
         IN  (tx.from.hex = "a" \/ tx.to.hex = "a") =>
               \E k \in 1..Len(check'.recentActivity) :
                 /\ check'.recentActivity[k].timestamp = BlockTimestamp(head["eth"])
                 /\ check'.recentActivity[k].amount = weiToEth(tx.value)]_vars

\* The height of the block of a chain that holds the transaction
BlockOf(chain, hash) ==
  CHOOSE n \in 0..MaxHead :
    \E i \in 1..Len(BlockTransactions(chain, n)) : BlockTransactions(chain, n)[i].hash = hash

\* C37: an AlertEvent of an entity of an EVM chain is of a transaction in a
\* block above the head the chain had when the entity was registered (the
\* height add-new stored as its lastSeenCursor).
C37_NoAlertFromBeforeRegistration ==
  \A key \in AlertKeys :
    (key[1] \in EvmChainSet /\ alertEvent[key] # <<>>) =>
      \A n \in 0..MaxHeadScan :
        trackedAddress[key[3]].lastSeenCursor = ToString(n) => BlockOf(key[1], key[2]) > n

\* The ids of the entities the running cycle of the worker has loaded
LoadedIds(x) == {x.tracked[i].id : i \in 1..Len(x.tracked)}

\* C39: a removed entity stays removed; the worker begins a cycle with no
\* entities loaded and loads only entities that are active at that moment;
\* and only for a loaded entity is an AlertEvent created or updated, a
\* notification sent or the cursor of the entity changed.  So a cycle that
\* starts after the removal has no effect for the removed entity.
C39_NoEffectAfterRemoval ==
  /\ [](w["w1"].pc \in {"idle", "evmRead", "evmInit", "evmInitCreate", "evmTracked",
                        "solTracked"} => w["w1"].tracked = <<>>)
  /\ [][/\ \A i \in 1..Len(trackedAddress) :
              ~trackedAddress[i].isActive =>
                 i <= Len(trackedAddress') /\ ~trackedAddress'[i].isActive
        /\ (w'["w1"].tracked # w["w1"].tracked /\ w["w1"].pc \in {"evmTracked", "solTracked"}) =>
              \A j \in 1..Len(w'["w1"].tracked) :
                LET id == w'["w1"].tracked[j].id
                IN  id \in 1..Len(trackedAddress) /\ trackedAddress[id].isActive
        /\ \A key \in AlertKeys :
              (alertEvent'[key] # alertEvent[key] \/ dispatched'[key] # dispatched[key]
                 \/ (key \in delivered' /\ key \notin delivered)) =>
                 key[3] \in LoadedIds(w["w1"])
        /\ \A i \in 1..Len(trackedAddress) :
              trackedAddress'[i].lastSeenCursor # trackedAddress[i].lastSeenCursor =>
                 i \in LoadedIds(w["w1"])]_vars

\* A Solana address was registered and removed and registered again; its
\* first signature appeared afterwards, and a cycle has created the
\* AlertEvent of the new entity and none of the removed one.
C39_Witness ==
  \E i, j \in 1..Len(trackedAddress) :
    /\ trackedAddress[i].chain = "sol" /\ ~trackedAddress[i].isActive
    /\ trackedAddress[i].createdAt = 0
    /\ trackedAddress[j].chain = "sol" /\ trackedAddress[j].isActive
    /\ trackedAddress[j].address = trackedAddress[i].address
    /\ Len(alertEvent[Key("sol", "s1", j)]) = 1
    /\ alertEvent[Key("sol", "s1", i)] = <<>>
    /\ dispatched[Key("sol", "s1", i)] = 0
    /\ trackedAddress[i].lastSeenCursor = ""
    /\ w["w1"].pc = "idle"

\* C40: when the poll of one EVM chain throws, the catch of pollEvmChains
\* writes nothing and the cycle goes on with the next chain from the same
\* start a poll without failure leads to (the cycle ends after the last
\* chain); and the poll of a chain writes the ChainCursor and the AlertEvents
\* of that chain only, so what the other chains get does not depend on the
\* failure.
C40_EvmErrorConfined ==
  [][LET x == w["w1"]
     IN  /\ EvmCatch("w1", AllFaults) =>
              /\ chainCursor' = chainCursor /\ alertEvent' = alertEvent
              /\ trackedAddress' = trackedAddress /\ dispatched' = dispatched
              /\ w'["w1"] = (IF x.ci < Len(evmChains)
                               THEN [IdleW EXCEPT !.pc = "evmRead", !.ci = x.ci + 1]
                               ELSE IdleW)
         /\ (EvmUpdate("w1", AllFaults) /\ w'["w1"].pc # "evmCatch") =>
              w'["w1"] = (IF x.ci < Len(evmChains)
                            THEN [IdleW EXCEPT !.pc = "evmRead", !.ci = x.ci + 1]
                            ELSE IdleW)
         /\ \A c \in EvmChainSet :
              chainCursor'[c] # chainCursor[c] => (x.ci \in 1..Len(evmChains) /\ c = Chain(x))
         /\ \A key \in AlertKeys :
              (key[1] \in EvmChainSet /\ alertEvent'[key] # alertEvent[key]) =>
                 (x.ci \in 1..Len(evmChains) /\ key[1] = Chain(x))]_vars

\* The poll of eth threw before its cursor was created, and the same run of
\* the loop over the chains has created the cursor of base and reached avax.
C40_Witness ==
  /\ ~chainCursor["eth"].present
  /\ chainCursor["base"].present
  /\ ~chainCursor["avax"].present
  /\ w["w1"].pc = "evmRead" /\ w["w1"].ci = 3

====
